---- MODULE Spec2Model ----
(***************************************************************************)
(* A model of the Telegram temporary-mail bot (Cloudflare Worker + KV).    *)
(* The repository holds several full-file variants of the same worker;     *)
(* the model keeps the variant as a state variable fixed at Init:          *)
(*   "v5"  worker.js lines 393-808 (v5.0, reply-driven creation, paged     *)
(*         inbox with read/unread/delete), same inbox code as v3.0         *)
(*   "v2"  part_002 lines 416-967 (v2.0, persisted per-user state)         *)
(*   "v7"  part_002 lines 1-414 (v7.1, ban flag; the handlers the file     *)
(*         omits are opaque calls)                                         *)
(* JavaScript strings are sequences of symbols: a symbol is one character  *)
(* ("a", "@", ":") or an indivisible chunk that holds no delimiter (an     *)
(* action name such as "view_inbox", the configured domain).               *)
(* The KV store is the pair (users, emails): user:{chatId} and             *)
(* email:{address} keys; a key is present iff it is in the DOMAIN.         *)
(* Every webhook event is one atomic action; log and out hold the          *)
(* operations and the transport calls of the last event, in order.         *)
(***************************************************************************)
EXTENDS Integers, Sequences, FiniteSets, TLC

VARIABLES variant, users, emails, ev, log, out

vars == <<variant, users, emails, ev, log, out>>

(* ------------------------------ bounds --------------------------------- *)
MaxInbox == 1
MaxCreated == 2
MaxTime == 0
MaxN == 6
MaxList == 12
MaxOps == 2
MaxFault == 3
MaxRace == 2
MaxArgs == 2
MaxArgLen == 2
MaxChats == 3
MaxNameLen == 2
MaxAwait == 6
MaxView == 3
MaxBetween == 2

(* --------------------------- configuration ----------------------------- *)
\* env.DOMAIN, one chunk
DOMAIN_NAME == <<"example.com">>
\* chat identifiers, as their decimal strings (chatId.toString())
ChatIds == {<<"1">>, <<"2">>}
\* env.ADMIN_IDS.split(",")
ADMIN_IDS == {<<"1">>}

(* ----------------------------- JS strings ------------------------------ *)
UpperSeq == <<"A","B","C","D","E","F","G","H","I","J","K","L","M",
              "N","O","P","Q","R","S","T","U","V","W","X","Y","Z">>
LowerSeq == <<"a","b","c","d","e","f","g","h","i","j","k","l","m",
              "n","o","p","q","r","s","t","u","v","w","x","y","z">>
DigitSeq == <<"0","1","2","3","4","5","6","7","8","9">>

Range(s) == {s[i] : i \in DOMAIN s}
LowerLetters == Range(LowerSeq)
Digits == Range(DigitSeq)

toLowerSym(ch) ==
  IF \E i \in DOMAIN UpperSeq : UpperSeq[i] = ch
  THEN LowerSeq[CHOOSE i \in DOMAIN UpperSeq : UpperSeq[i] = ch]
  ELSE ch

\* String.prototype.toLowerCase
toLowerCase(s) == [i \in DOMAIN s |-> toLowerSym(s[i])]

IsSpace(ch) == ch = " "

RECURSIVE trimStart(_)
trimStart(s) ==
  IF s # <<>> /\ IsSpace(Head(s)) THEN trimStart(Tail(s)) ELSE s

RECURSIVE trimEnd(_)
trimEnd(s) ==
  IF s # <<>> /\ IsSpace(s[Len(s)]) THEN trimEnd(SubSeq(s, 1, Len(s) - 1)) ELSE s

\* String.prototype.trim
trim(s) == trimEnd(trimStart(s))

\* String.prototype.split(sep): the parts between occurrences of sep
RECURSIVE splitFrom(_, _, _)
splitFrom(s, sep, cur) ==
  IF s = <<>> THEN <<cur>>
  ELSE IF Head(s) = sep THEN <<cur>> \o splitFrom(Tail(s), sep, <<>>)
  ELSE splitFrom(Tail(s), sep, Append(cur, Head(s)))

split(s, sep) == splitFrom(s, sep, <<>>)

startsWith(s, ch) == s # <<>> /\ Head(s) = ch

\* /^[a-z0-9.-]+$/.test(name)
NameRegexTest(name) ==
  /\ name # <<>>
  /\ \A i \in DOMAIN name : name[i] \in LowerLetters \cup Digits \cup {".", "-"}

(* ----------------------------- JS numbers ------------------------------ *)
NaN == [nan |-> TRUE, val |-> 0]
Num(n) == [nan |-> FALSE, val |-> n]

DigitVal(ch) == (CHOOSE i \in DOMAIN DigitSeq : DigitSeq[i] = ch) - 1

RECURSIVE digitsValue(_, _)
digitsValue(s, acc) ==
  IF s # <<>> /\ Head(s) \in Digits
  THEN digitsValue(Tail(s), acc * 10 + DigitVal(Head(s)))
  ELSE acc

\* parseInt(string): optional blanks, optional sign, then the leading digits
parseInt(str) ==
  LET s == trimStart(str)
      neg == s # <<>> /\ Head(s) = "-"
      body == IF s # <<>> /\ Head(s) \in {"-", "+"} THEN Tail(s) ELSE s
  IN IF body # <<>> /\ Head(body) \in Digits
     THEN Num(IF neg THEN 0 - digitsValue(body, 0) ELSE digitsValue(body, 0))
     ELSE NaN

RECURSIVE natToStr(_)
natToStr(n) ==
  IF n < 10 THEN <<DigitSeq[n + 1]>>
  ELSE Append(natToStr(n \div 10), DigitSeq[(n % 10) + 1])

\* template-literal conversion of a number
numToStr(x) ==
  IF x.nan THEN <<"NaN">>
  ELSE IF x.val < 0 THEN <<"-">> \o natToStr(0 - x.val)
  ELSE natToStr(x.val)

\* a faulty Math.min that returns its first argument: no upper clamp
MathMinFirst(a, b) == a

\* a faulty Math.floor(a / b) that rounds up
FloorDivUp(a, b) == (a + b - 1) \div b

\* Math.min / Math.max / Math.ceil(a / b) / Math.floor(a / b) on JS numbers
MathMin(a, b) == IF a.nan \/ b.nan THEN NaN ELSE IF a.val < b.val THEN a ELSE b
MathMax(a, b) == IF a.nan \/ b.nan THEN NaN ELSE IF a.val > b.val THEN a ELSE b
CeilDiv(a, b) == (a + b - 1) \div b
FloorDiv(a, b) == a \div b

(* ------------------------- URI component codec ------------------------- *)
HexSeq == <<"0","1","2","3","4","5","6","7","8","9","A","B","C","D","E","F">>
HexLowerSeq == <<"a","b","c","d","e","f">>

IndexIn(seq, ch) == CHOOSE i \in DOMAIN seq : seq[i] = ch

\* the value of a hexadecimal digit (either case), or -1
hexVal(ch) ==
  IF ch \in Range(HexSeq) THEN IndexIn(HexSeq, ch) - 1
  ELSE IF ch \in Range(HexLowerSeq) THEN IndexIn(HexLowerSeq, ch) + 9
  ELSE 0 - 1

\* the characters other than letters and digits that the model's strings use,
\* with their code points ("U+00E9" and "U+20AC" stand for one character each)
CharTable ==
  << <<" ", 32>>, <<"!", 33>>, <<"#", 35>>, <<"%", 37>>, <<"&", 38>>, <<"'", 39>>,
     <<"(", 40>>, <<")", 41>>, <<"*", 42>>, <<"+", 43>>, <<",", 44>>, <<"-", 45>>,
     <<".", 46>>, <<"/", 47>>, <<":", 58>>, <<";", 59>>, <<"=", 61>>, <<"?", 63>>,
     <<"@", 64>>, <<"_", 95>>, <<"~", 126>>, <<"U+00E9", 233>>, <<"U+20AC", 8364>> >>

\* the symbols that are one character; any other symbol is a chunk of
\* unreserved characters
IsChar(ch) ==
  \/ ch \in Range(LowerSeq) \cup Range(UpperSeq) \cup Range(DigitSeq)
  \/ \E i \in DOMAIN CharTable : CharTable[i][1] = ch

\* String.prototype.codePointAt
codePointAt(ch) ==
  IF ch \in Range(LowerSeq) THEN IndexIn(LowerSeq, ch) + 96
  ELSE IF ch \in Range(UpperSeq) THEN IndexIn(UpperSeq, ch) + 64
  ELSE IF ch \in Range(DigitSeq) THEN IndexIn(DigitSeq, ch) + 47
  ELSE CharTable[CHOOSE i \in DOMAIN CharTable : CharTable[i][1] = ch][2]

\* String.fromCodePoint, for the code points of the model's characters (a code
\* point outside them is shown as one replacement symbol)
fromCodePoint(cp) ==
  IF cp \in 97..122 THEN LowerSeq[cp - 96]
  ELSE IF cp \in 65..90 THEN UpperSeq[cp - 64]
  ELSE IF cp \in 48..57 THEN DigitSeq[cp - 47]
  ELSE IF \E i \in DOMAIN CharTable : CharTable[i][2] = cp
  THEN CharTable[CHOOSE i \in DOMAIN CharTable : CharTable[i][2] = cp][1]
  ELSE "U+other"

\* the UTF-8 bytes of a code point
utf8Bytes(cp) ==
  IF cp < 128 THEN <<cp>>
  ELSE IF cp < 2048 THEN <<192 + (cp \div 64), 128 + (cp % 64)>>
  ELSE IF cp < 65536
  THEN <<224 + (cp \div 4096), 128 + ((cp \div 64) % 64), 128 + (cp % 64)>>
  ELSE <<240 + (cp \div 262144), 128 + ((cp \div 4096) % 64),
         128 + ((cp \div 64) % 64), 128 + (cp % 64)>>

\* one escaped byte: "%" and two upper-case hexadecimal digits
escapeByte(b) == <<"%", HexSeq[(b \div 16) + 1], HexSeq[(b % 16) + 1]>>

RECURSIVE escapeBytes(_)
escapeBytes(bs) ==
  IF bs = <<>> THEN <<>> ELSE escapeByte(Head(bs)) \o escapeBytes(Tail(bs))

\* the characters encodeURIComponent leaves as they are: A-Z a-z 0-9 - _ . ! ~ * ' ( )
UriUnreserved ==
  Range(LowerSeq) \cup Range(UpperSeq) \cup Range(DigitSeq)
  \cup {"-", "_", ".", "!", "~", "*", "'", "(", ")"}

\* the characters encodeURI leaves in addition: ; / ? : @ & = + $ , #
UriReserved == {";", "/", "?", ":", "@", "&", "=", "+", ",", "#"}

\* encodeURI in the place of encodeURIComponent: the delimiters stay
RECURSIVE encodeURI(_)
encodeURI(str) ==
  IF str = <<>> THEN <<>>
  ELSE (IF IsChar(Head(str)) /\ Head(str) \notin UriUnreserved \cup UriReserved
        THEN escapeBytes(utf8Bytes(codePointAt(Head(str))))
        ELSE <<Head(str)>>) \o encodeURI(Tail(str))

\* encode = encodeURIComponent (the model's strings hold no lone surrogate,
\* for which it throws)
RECURSIVE encode(_)
encode(str) ==
  IF str = <<>> THEN <<>>
  ELSE (IF IsChar(Head(str)) /\ Head(str) \notin UriUnreserved
        THEN escapeBytes(utf8Bytes(codePointAt(Head(str))))
        ELSE <<Head(str)>>) \o encode(Tail(str))

\* the byte the escape at position i of s stands for, or -1 when s does not
\* hold "%" and two hexadecimal digits there
byteAt(s, i) ==
  IF /\ i + 2 <= Len(s)
     /\ s[i] = "%"
     /\ hexVal(s[i + 1]) >= 0
     /\ hexVal(s[i + 2]) >= 0
  THEN 16 * hexVal(s[i + 1]) + hexVal(s[i + 2])
  ELSE 0 - 1

\* the continuation bytes a UTF-8 lead byte announces, or -1 for a byte that
\* cannot lead
utf8Trail(b) ==
  IF b < 128 THEN 0
  ELSE IF b \in 194..223 THEN 1
  ELSE IF b \in 224..239 THEN 2
  ELSE IF b \in 240..244 THEN 3
  ELSE 0 - 1

\* the code point of the n + 1 escapes that start s, or -1 when they are not
\* one well-formed UTF-8 sequence
RECURSIVE trailValue(_, _, _)
trailValue(s, k, acc) ==
  IF k = 0 THEN acc
  ELSE IF byteAt(s, 1) \in 128..191
  THEN trailValue(SubSeq(s, 4, Len(s)), k - 1, acc * 64 + (byteAt(s, 1) - 128))
  ELSE 0 - 1

escapedCodePoint(s) ==
  LET b == byteAt(s, 1)
      n == IF b < 0 THEN 0 - 1 ELSE utf8Trail(b)
      lead == CASE n = 0 -> b [] n = 1 -> b - 192 [] n = 2 -> b - 224
                [] n = 3 -> b - 240 [] OTHER -> 0
      cp == IF n < 0 THEN 0 - 1 ELSE trailValue(SubSeq(s, 4, Len(s)), n, lead)
  IN IF cp < 0 THEN 0 - 1
     ELSE IF n = 2 /\ (cp < 2048 \/ cp \in 55296..57343) THEN 0 - 1
     ELSE IF n = 3 /\ cp \notin 65536..1114111 THEN 0 - 1
     ELSE cp

URIError == [ok |-> FALSE, val |-> <<>>]

\* decode = decodeURIComponent: the decoded string, or a URIError for a
\* malformed escape
RECURSIVE decode(_)
decode(str) ==
  IF str = <<>> THEN [ok |-> TRUE, val |-> <<>>]
  ELSE IF Head(str) # "%"
  THEN LET rest == decode(Tail(str))
       IN IF rest.ok THEN [ok |-> TRUE, val |-> <<Head(str)>> \o rest.val]
          ELSE URIError
  ELSE LET cp == escapedCodePoint(str)
       IN IF cp < 0 THEN URIError
          ELSE LET rest == decode(SubSeq(str, 3 * (utf8Trail(byteAt(str, 1)) + 1) + 1,
                                         Len(str)))
               IN IF rest.ok THEN [ok |-> TRUE, val |-> <<fromCodePoint(cp)>> \o rest.val]
                  ELSE URIError

(* ------------------------------ records -------------------------------- *)
\* a user record as trackUserActivity first writes it: { createdEmails: [] }
\* (state and broadcast_message are the fields v2.0 adds, isBanned and
\* forwardEmail the ones v7.1 adds; an absent state is "null")
Undefined == <<"<undefined>">>
NoTime == 0 - 1

NewUser == [createdEmails |-> <<>>, lastActive |-> NoTime, state |-> "null",
            broadcast_message |-> Undefined, isBanned |-> FALSE,
            forwardEmail |-> Undefined]

HasUser(w, c) == c \in DOMAIN w.users
HasEmail(w, a) == a \in DOMAIN w.emails

Address(name) == toLowerCase(name) \o <<"@">> \o DOMAIN_NAME

(* ------------------------- world of one event -------------------------- *)
\* fuel is the number of awaited I/O calls of the event that settle before one
\* rejects (NoFault: none rejects); thrown says the event's handler has been
\* left by the exception, after which nothing of it runs
NoFault == 0 - 1

World == [users |-> users, emails |-> emails, log |-> <<>>, out |-> <<>>,
          fuel |-> NoFault, thrown |-> FALSE]

Log(w, op, arg) ==
  IF w.thrown THEN w ELSE [w EXCEPT !.log = Append(@, [op |-> op, arg |-> arg])]

\* await of an I/O call (KV or fetch): done is the world once the call has
\* settled; a rejected call throws out of the handler, no handler catches
Await(w, op, done) ==
  IF w.thrown THEN w
  ELSE IF w.fuel = 0
  THEN [w EXCEPT !.thrown = TRUE, !.log = Append(@, [op |-> "throw", arg |-> op])]
  ELSE IF done.fuel > 0 THEN [done EXCEPT !.fuel = @ - 1]
  ELSE done

\* an exception raised by the handler's own code (a TypeError): like a
\* rejected call it leaves the handler, fetch of v5.0 has no try/catch
Throw(w, what) ==
  IF w.thrown THEN w
  ELSE [w EXCEPT !.thrown = TRUE, !.log = Append(@, [op |-> "throw", arg |-> what])]

\* env.MAIL_BOT_DB.get: the read itself only leaves a trace
kvGet(w, ns) == Await(w, "get", Log(w, "get", ns))

\* env.MAIL_BOT_DB.put(`user:${c}`, ...)
kvPutUser(w, c, rec) ==
  Await(w, "put",
    Log([w EXCEPT !.users = [k \in DOMAIN w.users \cup {c} |->
                               IF k = c THEN rec ELSE w.users[k]]],
        "put", "user"))

\* env.MAIL_BOT_DB.put(`email:${a}`, ...)
kvPutEmail(w, a, rec) ==
  Await(w, "put",
    Log([w EXCEPT !.emails = [k \in DOMAIN w.emails \cup {a} |->
                                IF k = a THEN rec ELSE w.emails[k]]],
        "put", "email"))

\* env.MAIL_BOT_DB.delete(`email:${a}`)
kvDeleteEmail(w, a) ==
  Await(w, "delete",
    Log([w EXCEPT !.emails = [k \in DOMAIN w.emails \ {a} |-> w.emails[k]]],
        "delete", "email"))

(* ------------------------------ transport ------------------------------ *)
Button(label, data) == [label |-> label, data |-> data]
NoKeyboard == <<>>

\* one transport call: what is shown (text names the template; page/total are
\* the numbers interpolated into it, msg the message whose fields are shown)
Render(via, to, text, page, total, msg, kb) ==
  [via |-> via, to |-> to, text |-> text, page |-> page, total |-> total,
   msg |-> msg, kb |-> kb, body |-> <<>>]

Transport(w, via, to, text, page, total, msg, kb) ==
  Await(w, via,
    Log([w EXCEPT !.out = Append(@, Render(via, to, text, page, total, msg, kb))],
        via, text))

\* a transport call whose text interpolates a user-supplied string
TransportBody(w, via, to, text, body, kb) ==
  Await(w, via,
    Log([w EXCEPT !.out = Append(@, [Render(via, to, text, Num(0), 0, 0, kb)
                                       EXCEPT !.body = body])],
        via, text))

sendMessage(w, chatId, text, kb) ==
  Transport(w, "send", chatId, text, Num(0), 0, 0, kb)

editMessage(w, chatId, text, kb) ==
  Transport(w, "edit", chatId, text, Num(0), 0, 0, kb)

answerCallbackQuery(w, chatId, text) ==
  Transport(w, "ack", chatId, text, Num(0), 0, 0, NoKeyboard)

\* `${action}:${a}` and `${action}:${a}:${b}`
Token0(action) == <<action>>
Token1(action, a) == <<action, ":">> \o a
Token2(action, a, b) == <<action, ":">> \o a \o <<":">> \o b

(* ======================= v5.0: worker.js 393-808 ====================== *)
emailsPerPage == 5

\* trackUserActivity(userKey, env)
trackUserActivity(w, c, t) ==
  LET w1 == kvGet(w, "user")
      parsedData == IF HasUser(w1, c) THEN w1.users[c] ELSE NewUser
  IN kvPutUser(w1, c, [parsedData EXCEPT !.lastActive = t])

\* createdEmails.filter(e => e !== email)
RECURSIVE filterOut(_, _)
filterOut(list, email) ==
  IF list = <<>> THEN <<>>
  ELSE IF Head(list) = email THEN filterOut(Tail(list), email)
  ELSE <<Head(list)>> \o filterOut(Tail(list), email)

\* a faulty createNewEmail that skips the existence check
createNewEmailNoCheck(w, chatId, name, t) ==
  IF ~NameRegexTest(name) THEN sendMessage(w, chatId, "invalid_name", NoKeyboard)
  ELSE
    LET email == Address(name)
        w2 == kvPutEmail(kvGet(w, "email"), email, [inbox |-> <<>>, owner |-> chatId])
        w3 == kvGet(w2, "user")
        userData == IF HasUser(w3, chatId) THEN w3.users[chatId]
                    ELSE [NewUser EXCEPT !.lastActive = t]
        w4 == kvPutUser(w3, chatId, [userData EXCEPT !.createdEmails = Append(@, email)])
    IN sendMessage(w4, chatId, "created", NoKeyboard)

\* createNewEmail(chatId, name, env)
createNewEmail(w, chatId, name, t) ==
  IF ~NameRegexTest(name) THEN sendMessage(w, chatId, "invalid_name", NoKeyboard)
  ELSE
    LET email == Address(name)
        w1 == kvGet(w, "email")
    IN IF HasEmail(w1, email) THEN sendMessage(w1, chatId, "address_taken", NoKeyboard)
       ELSE
         LET w2 == kvPutEmail(w1, email, [inbox |-> <<>>, owner |-> chatId])
             w3 == kvGet(w2, "user")
             userData == IF HasUser(w3, chatId) THEN w3.users[chatId]
                         ELSE [NewUser EXCEPT !.lastActive = t]
             w4 == kvPutUser(w3, chatId,
                     [userData EXCEPT !.createdEmails = Append(@, email)])
         IN sendMessage(w4, chatId, "created", NoKeyboard)

\* confirmDeleteEmail(chatId, messageId, email, env)
confirmDeleteEmail(w, chatId, email) ==
  editMessage(w, chatId, "confirm_delete_email",
    << <<Button("confirm", Token1("delete_confirm", email)),
         Button("cancel", Token0("delete_cancel"))>> >>)

\* deleteEmail(chatId, messageId, email, env)
deleteEmail(w, chatId, email) ==
  LET w1 == kvGet(w, "user")
      w2 == IF HasUser(w1, chatId)
            THEN kvPutUser(w1, chatId,
                   [w1.users[chatId] EXCEPT !.createdEmails = filterOut(@, email)])
            ELSE w1
      w3 == kvDeleteEmail(w2, email)
  IN editMessage(w3, chatId, "email_deleted", NoKeyboard)

\* deleteEmailAsAdmin(chatId, messageId, emailToDelete, targetUserId, env)
deleteEmailAsAdmin(w, chatId, emailToDelete, targetUserId) ==
  LET w1 == kvGet(w, "user")
      w2 == IF HasUser(w1, targetUserId)
            THEN kvPutUser(w1, targetUserId,
                   [w1.users[targetUserId] EXCEPT
                      !.createdEmails = filterOut(@, emailToDelete)])
            ELSE w1
      w3 == kvDeleteEmail(w2, emailToDelete)
  IN editMessage(w3, chatId, "admin_email_deleted",
       << <<Button("back_user", Token1("admin_view_user", targetUserId))>> >>)

(* --------------------- v5.0 inbox and message views -------------------- *)
\* a stored message; id stands for its from/subject/body/receivedAt
Message(id, read) == [id |-> id, read |-> read]

\* inbox[emailIndex] is an element (not undefined)
InBounds(inbox, emailIndex) ==
  ~emailIndex.nan /\ 0 <= emailIndex.val /\ emailIndex.val < Len(inbox)

\* inbox.slice(start, start + emailsPerPage): the global indices it holds
SliceIndices(inbox, start) ==
  IF start.nan THEN <<>>
  ELSE LET lo == IF start.val < 0
                 THEN (IF Len(inbox) + start.val < 0 THEN 0 ELSE Len(inbox) + start.val)
                 ELSE start.val
           hiRaw == start.val + emailsPerPage
           hi == IF hiRaw < 0
                 THEN (IF Len(inbox) + hiRaw < 0 THEN 0 ELSE Len(inbox) + hiRaw)
                 ELSE (IF hiRaw > Len(inbox) THEN Len(inbox) ELSE hiRaw)
       IN IF lo >= hi THEN <<>> ELSE [k \in 1..(hi - lo) |-> lo + k - 1]

\* faulty rows whose token carries the page-local index
MessageRowsLocal(inbox, email, start) ==
  LET idx == SliceIndices(inbox, start)
  IN [k \in DOMAIN idx |->
        << Button(IF inbox[idx[k] + 1].read THEN "msg_read" ELSE "msg_new",
                  Token2("view_email", email, natToStr(k - 1))) >>]

\* the keyboard rows emailPage.map(...) builds: one button per message
MessageRows(inbox, email, start) ==
  LET idx == SliceIndices(inbox, start)
  IN [k \in DOMAIN idx |->
        \* globalIndex = start + index
        LET globalIndex == start.val + (k - 1)
        IN << Button(IF inbox[idx[k] + 1].read THEN "msg_read" ELSE "msg_new",
                     Token2("view_email", email, natToStr(globalIndex))) >>]

\* a faulty pagination row that offers "next" on the last page too
PaginationRowNextOnLast(email, page, totalPages) ==
  (IF ~page.nan /\ page.val > 1
   THEN <<Button("prev", Token2("view_inbox", email, numToStr(Num(page.val - 1))))>>
   ELSE <<>>)
  \o <<Button("refresh", Token2("view_inbox", email, numToStr(page)))>>
  \o (IF ~page.nan /\ page.val <= totalPages
      THEN <<Button("next", Token2("view_inbox", email, numToStr(Num(page.val + 1))))>>
      ELSE <<>>)

\* the pagination row of showInboxList
PaginationRow(email, page, totalPages) ==
  (IF ~page.nan /\ page.val > 1
   THEN <<Button("prev", Token2("view_inbox", email, numToStr(Num(page.val - 1))))>>
   ELSE <<>>)
  \o <<Button("refresh", Token2("view_inbox", email, numToStr(page)))>>
  \o (IF ~page.nan /\ page.val < totalPages
      THEN <<Button("next", Token2("view_inbox", email, numToStr(Num(page.val + 1))))>>
      ELSE <<>>)

\* showInboxList(chatId, messageId, email, page = 1, env)
showInboxList(w, chatId, email, page) ==
  LET w1 == kvGet(w, "email")
  IN IF ~HasEmail(w1, email)
     THEN editMessage(w1, chatId, "email_not_found", NoKeyboard)
     ELSE
       LET inbox == w1.emails[email].inbox
       IN IF Len(inbox) = 0
          THEN editMessage(w1, chatId, "inbox_empty",
                 << <<Button("refresh", Token2("view_inbox", email, <<"1">>))>> >>)
          ELSE
            LET totalPages == CeilDiv(Len(inbox), emailsPerPage)
                pg == MathMax(Num(1), MathMin(page, Num(totalPages)))
                start == IF pg.nan THEN NaN ELSE Num((pg.val - 1) * emailsPerPage)
                keyboardRows ==
                  MessageRows(inbox, email, start)
                  \o << PaginationRow(email, pg, totalPages) >>
                  \o << <<Button("back_emails", Token0("panel_my_emails"))>> >>
            IN Transport(w1, "edit", chatId, "inbox_list", pg, totalPages, 0,
                         keyboardRows)

\* viewSingleEmail(chatId, messageId, emailAddr, emailIndex, env)
viewSingleEmail(w, chatId, emailAddr, emailIndex) ==
  LET w1 == kvGet(w, "email")
  IN IF ~HasEmail(w1, emailAddr) THEN w1
     ELSE
       LET box == w1.emails[emailAddr]
       IN IF ~InBounds(box.inbox, emailIndex) THEN w1
          ELSE
            LET i == emailIndex.val + 1
                email == box.inbox[i]
                w2 == IF ~email.read
                      THEN kvPutEmail(w1, emailAddr,
                             [box EXCEPT !.inbox[i].read = TRUE])
                      ELSE w1
                idxStr == numToStr(emailIndex)
                keyboard ==
                  << << Button("mark_unread", Token2("mark_unread", emailAddr, idxStr)),
                        Button("delete", Token2("delete_single_confirm", emailAddr, idxStr)) >>,
                     << Button("back_inbox",
                          Token2("view_inbox", emailAddr,
                            natToStr(FloorDiv(emailIndex.val, emailsPerPage) + 1))) >> >>
            IN Transport(w2, "edit", chatId, "single_email", Num(0), 0, email.id,
                         keyboard)

\* a faulty markEmailUnread that persists { inbox } without the owner
markEmailUnreadDropOwner(w, chatId, emailAddr, emailIndex) ==
  LET w1 == kvGet(w, "email")
  IN IF ~HasEmail(w1, emailAddr) THEN w1
     ELSE
       LET box == w1.emails[emailAddr]
           w2 == IF InBounds(box.inbox, emailIndex)
                 THEN kvPutEmail(w1, emailAddr,
                        [inbox |-> [box.inbox EXCEPT ![emailIndex.val + 1].read = FALSE],
                         owner |-> Undefined])
                 ELSE w1
       IN viewSingleEmail(w2, chatId, emailAddr, emailIndex)

\* markEmailUnread(chatId, messageId, emailAddr, emailIndex, env)
markEmailUnread(w, chatId, emailAddr, emailIndex) ==
  LET w1 == kvGet(w, "email")
  IN IF ~HasEmail(w1, emailAddr) THEN w1
     ELSE
       LET box == w1.emails[emailAddr]
           w2 == IF InBounds(box.inbox, emailIndex)
                 THEN kvPutEmail(w1, emailAddr,
                        [box EXCEPT !.inbox[emailIndex.val + 1].read = FALSE])
                 ELSE w1
       IN viewSingleEmail(w2, chatId, emailAddr, emailIndex)

\* confirmDeleteSingleEmail(chatId, messageId, emailAddr, emailIndex, env)
confirmDeleteSingleEmail(w, chatId, emailAddr, emailIndex) ==
  LET idxStr == numToStr(emailIndex)
  IN editMessage(w, chatId, "confirm_delete_single",
       << << Button("confirm", Token2("delete_single_execute", emailAddr, idxStr)),
             Button("cancel", Token2("view_email", emailAddr, idxStr)) >> >>)

\* a faulty splice that removes the last element whatever the index
spliceLast(inbox, i) == [k \in 1..(Len(inbox) - 1) |-> inbox[k]]

\* inbox.splice(emailIndex, 1)
splice(inbox, i) ==
  [k \in 1..(Len(inbox) - 1) |-> IF k < i + 1 THEN inbox[k] ELSE inbox[k + 1]]

\* deleteSingleEmail(chatId, messageId, emailAddr, emailIndex, env)
deleteSingleEmail(w, chatId, emailAddr, emailIndex) ==
  LET w1 == kvGet(w, "email")
  IN IF ~HasEmail(w1, emailAddr) THEN w1
     ELSE
       LET box == w1.emails[emailAddr]
           w2 == IF InBounds(box.inbox, emailIndex)
                 THEN kvPutEmail(Log(w1, "splice", "inbox"), emailAddr,
                        [box EXCEPT !.inbox = splice(@, emailIndex.val)])
                 ELSE w1
           w3 == editMessage(w2, chatId, "single_deleted", NoKeyboard)
       IN showInboxList(w3, chatId, emailAddr, Num(1))

(* ----------------------- v5.0 panels and admin ------------------------- *)
\* showUserPanel(chatId, env): the count of created addresses is shown
showUserPanel(w, chatId) ==
  LET w1 == kvGet(w, "user")
      emailCount == IF HasUser(w1, chatId) THEN Len(w1.users[chatId].createdEmails) ELSE 0
  IN Transport(w1, "send", chatId, "user_panel", Num(0), emailCount, 0,
       << <<Button("my_emails", Token0("panel_my_emails"))>>,
          <<Button("create", Token0("panel_create"))>>,
          <<Button("random", Token0("panel_random"))>> >>)

\* listUserEmails(chatId, env)
listUserEmails(w, chatId) ==
  LET w1 == kvGet(w, "user")
  IN IF ~HasUser(w1, chatId) \/ Len(w1.users[chatId].createdEmails) = 0
     THEN sendMessage(w1, chatId, "no_emails", NoKeyboard)
     ELSE LET createdEmails == w1.users[chatId].createdEmails
          IN sendMessage(w1, chatId, "email_list",
               [k \in DOMAIN createdEmails |->
                  << Button("inbox", Token2("view_inbox", createdEmails[k], <<"1">>)),
                     Button("delete", Token1("delete_email", createdEmails[k])) >>])

\* requestEmailName(chatId, env): the force_reply prompt
requestEmailName(w, chatId) == sendMessage(w, chatId, "name_prompt", NoKeyboard)

\* generateRandomAddress(chatId, env, messageId): randomName is the drawn name
generateRandomAddress(w, chatId, randomName, edit) ==
  Transport(w, IF edit THEN "edit" ELSE "send", chatId, "random_suggestion",
    Num(0), 0, 0,
    << << Button("create", Token1("create_random", randomName)),
          Button("another", Token0("generate_another")) >> >>)

\* showAdminPanel(chatId, env, messageId)
showAdminPanel(w, chatId, edit) ==
  Transport(w, IF edit THEN "edit" ELSE "send", chatId, "admin_panel", Num(0), 0, 0,
    << <<Button("stats", Token0("admin_stats"))>>,
       <<Button("users", Token1("admin_list_users", <<"1">>))>>,
       <<Button("inactive", Token1("admin_inactive_users", <<"3", "0">>))>> >>)

\* viewUserAsAdmin(chatId, messageId, targetUserId, env)
viewUserAsAdmin(w, chatId, targetUserId) ==
  LET w1 == kvGet(w, "user")
      back == <<Button("back_users", Token1("admin_list_users", <<"1">>))>>
  IN IF ~HasUser(w1, targetUserId) \/ Len(w1.users[targetUserId].createdEmails) = 0
     THEN editMessage(w1, chatId, "user_no_emails", <<back>>)
     ELSE LET createdEmails == w1.users[targetUserId].createdEmails
          IN editMessage(w1, chatId, "user_emails",
               [k \in DOMAIN createdEmails |->
                  << Button("inbox", Token2("view_inbox", createdEmails[k], <<"1">>)),
                     Button("delete", Token2("admin_delete_user_email_confirm",
                                             createdEmails[k], targetUserId)) >>]
               \o <<back>>)

\* confirmDeleteEmailAsAdmin(chatId, messageId, emailToDelete, targetUserId, env)
confirmDeleteEmailAsAdmin(w, chatId, emailToDelete, targetUserId) ==
  editMessage(w, chatId, "admin_confirm_delete",
    << << Button("confirm", Token2("admin_delete_user_email_execute",
                                   emailToDelete, targetUserId)),
          Button("cancel", Token1("admin_view_user", targetUserId)) >> >>)

\* showAdminStats(chatId, messageId, env): both key counts are shown
showAdminStats(w, chatId) ==
  LET w1 == Log(Log(w, "list", "user"), "list", "email")
  IN Transport(w1, "edit", chatId, "admin_stats",
       Num(Cardinality(DOMAIN w1.users)), Cardinality(DOMAIN w1.emails), 0,
       << <<Button("back_admin", Token0("admin_panel"))>> >>)

\* the user:{chatId} keys as KV list() returns them (lexicographic)
ChatOrder == << <<"1">>, <<"2">> >>

RECURSIVE presentKeys(_, _)
presentKeys(w, order) ==
  IF order = <<>> THEN <<>>
  ELSE (IF HasUser(w, Head(order)) THEN <<Head(order)>> ELSE <<>>)
       \o presentKeys(w, Tail(order))

usersPerPage == 5

\* listAllUsers(chatId, messageId, page, env)
listAllUsers(w, chatId, page) ==
  LET w1 == Log(w, "list", "user")
      allUserKeys == presentKeys(w1, ChatOrder)
      totalPages == CeilDiv(Len(allUserKeys), usersPerPage)
      pg == MathMax(Num(1), MathMin(page, Num(totalPages)))
      lo == IF pg.nan THEN 0 ELSE (pg.val - 1) * usersPerPage
      hi == IF pg.nan THEN 0
            ELSE IF pg.val * usersPerPage > Len(allUserKeys) THEN Len(allUserKeys)
            ELSE pg.val * usersPerPage
      rows == IF lo >= hi THEN <<>>
              ELSE [k \in 1..(hi - lo) |->
                      <<Button("user", Token1("admin_view_user", allUserKeys[lo + k]))>>]
      paginationRow ==
        (IF ~pg.nan /\ pg.val > 1
         THEN <<Button("prev", Token1("admin_list_users", numToStr(Num(pg.val - 1))))>>
         ELSE <<>>)
        \o (IF ~pg.nan /\ pg.val < totalPages
            THEN <<Button("next", Token1("admin_list_users", numToStr(Num(pg.val + 1))))>>
            ELSE <<>>)
  IN Transport(w1, "edit", chatId, "users_list", pg, totalPages, 0,
       rows \o (IF paginationRow # <<>> THEN <<paginationRow>> ELSE <<>>)
            \o << <<Button("back_admin", Token0("admin_panel"))>> >>)

\* listInactiveUsers(chatId, messageId, days, env): one time unit is one day
listInactiveUsers(w, chatId, days, t) ==
  LET w1 == Log(w, "list", "user")
      inactiveUsers ==
        {c \in DOMAIN w1.users :
           \/ w1.users[c].lastActive = NoTime
           \/ ~days.nan /\ w1.users[c].lastActive < t - days.val}
  IN Transport(w1, "edit", chatId, "inactive_users", days, Cardinality(inactiveUsers), 0,
       << <<Button("back_admin", Token0("admin_panel"))>> >>)

(* --------------------------- v5.0 dispatch ----------------------------- *)
\* params[i] of data.split(":"), undefined when missing (i counts from 0)
Param(params, i) == IF i + 1 <= Len(params) THEN params[i + 1] ELSE Undefined

\* parseInt(params[i] || dflt)
ParamIntOr(params, i, dflt) ==
  IF Param(params, i) = Undefined \/ Param(params, i) = <<>> THEN Num(dflt)
  ELSE parseInt(Param(params, i))

\* parseInt(params[i])
ParamInt(params, i) == parseInt(Param(params, i))

isAdmin(chatId) == chatId \in ADMIN_IDS

\* the names bound in the actions table of handleCallbackQuery
UserActions5 ==
  {"panel_my_emails", "panel_create", "panel_random", "view_inbox", "view_email",
   "mark_unread", "delete_single_confirm", "delete_single_execute", "delete_email",
   "delete_confirm", "delete_cancel", "create_random", "generate_another"}

AdminActions5 ==
  {"admin_panel", "admin_stats", "admin_list_users", "admin_view_user",
   "admin_delete_user_email_confirm", "admin_delete_user_email_execute",
   "admin_inactive_users"}

\* actions is an object literal: actions[action] also finds the properties
\* it inherits from Object.prototype. These are functions that can be called
\* without arguments and return a value,
InheritedCallable5 ==
  {"constructor", "hasOwnProperty", "isPrototypeOf", "propertyIsEnumerable",
   "toLocaleString", "toString", "valueOf"}

\* and this one is the prototype object itself: truthy, but not a function
InheritedObjects5 == {"__proto__"}

\* actions[action](): the handler the table binds to the action name
RunAction5(w, chatId, a, params, rnd, t) ==
  CASE a = "panel_my_emails" -> listUserEmails(w, chatId)
    [] a = "panel_create" -> requestEmailName(w, chatId)
    [] a = "panel_random" -> generateRandomAddress(w, chatId, rnd, FALSE)
    [] a = "view_inbox" ->
         showInboxList(w, chatId, Param(params, 0), ParamIntOr(params, 1, 1))
    [] a = "view_email" ->
         viewSingleEmail(w, chatId, Param(params, 0), ParamInt(params, 1))
    [] a = "mark_unread" ->
         markEmailUnread(w, chatId, Param(params, 0), ParamInt(params, 1))
    [] a = "delete_single_confirm" ->
         confirmDeleteSingleEmail(w, chatId, Param(params, 0), ParamInt(params, 1))
    [] a = "delete_single_execute" ->
         deleteSingleEmail(w, chatId, Param(params, 0), ParamInt(params, 1))
    [] a = "delete_email" -> confirmDeleteEmail(w, chatId, Param(params, 0))
    [] a = "delete_confirm" -> deleteEmail(w, chatId, Param(params, 0))
    [] a = "delete_cancel" -> editMessage(w, chatId, "delete_cancelled", NoKeyboard)
    [] a = "create_random" ->
         editMessage(createNewEmail(w, chatId, Param(params, 0), t), chatId,
                     "random_created", NoKeyboard)
    [] a = "generate_another" -> generateRandomAddress(w, chatId, rnd, TRUE)
    [] a = "admin_panel" -> showAdminPanel(w, chatId, TRUE)
    [] a = "admin_stats" -> showAdminStats(w, chatId)
    [] a = "admin_list_users" -> listAllUsers(w, chatId, ParamIntOr(params, 0, 1))
    [] a = "admin_view_user" -> viewUserAsAdmin(w, chatId, Param(params, 0))
    [] a = "admin_delete_user_email_confirm" ->
         confirmDeleteEmailAsAdmin(w, chatId, Param(params, 0), Param(params, 1))
    [] a = "admin_delete_user_email_execute" ->
         deleteEmailAsAdmin(w, chatId, Param(params, 0), Param(params, 1))
    [] a = "admin_inactive_users" ->
         listInactiveUsers(w, chatId, ParamIntOr(params, 0, 30), t)

\* handleCallbackQuery(callbackQuery, env)
handleCallbackQuery5(w, chatId, data, rnd, t) ==
  LET parts == split(data, ":")
      action == Head(parts)
      params == Tail(parts)
      w1 == answerCallbackQuery(w, chatId, "working")
      w2 == trackUserActivity(w1, chatId, t)
  IN IF Len(action) = 1 /\ action[1] \in UserActions5
     THEN RunAction5(Log(w2, "call", action[1]), chatId, action[1], params, rnd, t)
     ELSE IF Len(action) = 1 /\ action[1] \in AdminActions5
     THEN (IF isAdmin(chatId)
           THEN RunAction5(Log(w2, "call", action[1]), chatId, action[1], params, rnd, t)
           ELSE w2)
     ELSE IF Len(action) = 1 /\ action[1] \in InheritedCallable5
     THEN Log(w2, "builtin", action[1])
     ELSE IF Len(action) = 1 /\ action[1] \in InheritedObjects5
     THEN Throw(w2, "TypeError")
     ELSE w2

\* the command switch of handleMessage
RunCommand5(w, chatId, text, rnd) ==
  CASE text = <<"/", "start">> \/ text = <<"/", "panel">> -> showUserPanel(w, chatId)
    [] text = <<"/", "create">> -> requestEmailName(w, chatId)
    [] text = <<"/", "my_emails">> \/ text = <<"/", "myemails">> ->
         listUserEmails(w, chatId)
    [] text = <<"/", "random_address">> -> generateRandomAddress(w, chatId, rnd, FALSE)
    [] text = <<"/", "admin">> ->
         IF isAdmin(chatId) THEN showAdminPanel(w, chatId, FALSE)
         ELSE sendMessage(w, chatId, "not_admin", NoKeyboard)
    [] OTHER -> showUserPanel(w, chatId)

\* handleMessage(message, env); reply: the message answers the name prompt
handleMessage5(w, chatId, rawText, reply, rnd, t) ==
  LET text == trim(toLowerCase(rawText))
      w1 == trackUserActivity(w, chatId, t)
  IN IF reply
     THEN createNewEmail(Log(w1, "call", "createNewEmail"), chatId,
                         Head(split(text, " ")), t)
     ELSE RunCommand5(w1, chatId, text, rnd)

\* a faulty email that pushes the new message at the end of the inbox
email5Append(w, rawTo, msg) ==
  LET to == toLowerCase(rawTo)
      w1 == kvGet(w, "email")
  IN IF ~HasEmail(w1, to) THEN Log(w1, "setReject", "email")
     ELSE
       LET box == w1.emails[to]
           w2 == kvPutEmail(w1, to,
                   [box EXCEPT !.inbox = @ \o <<Message(msg, FALSE)>>])
       IN sendMessage(w2, box.owner, "new_mail",
            << <<Button("inbox", Token2("view_inbox", to, <<"1">>))>> >>)

\* email(message, env): msg stands for the parsed from/subject/body
email5(w, rawTo, msg) ==
  LET to == toLowerCase(rawTo)
      w1 == kvGet(w, "email")
  IN IF ~HasEmail(w1, to) THEN Log(w1, "setReject", "email")
     ELSE
       LET box == w1.emails[to]
           w2 == kvPutEmail(w1, to,
                   [box EXCEPT !.inbox = <<Message(msg, FALSE)>> \o @])
       IN sendMessage(w2, box.owner, "new_mail",
            << <<Button("inbox", Token2("view_inbox", to, <<"1">>))>> >>)

(* ==================== v2.0: unnamed/part_002 416-967 =================== *)
\* getUserData(chatId, env): the parsed record, or the default one
getUserData(w, chatId) == IF HasUser(w, chatId) THEN w.users[chatId] ELSE NewUser

\* updateUserData(chatId, data, env): stamps lastActive and persists; the
\* trace keeps the state tag that was persisted
updateUserData(w, chatId, data, t) ==
  Log(kvPutUser(w, chatId, [data EXCEPT !.lastActive = t]), "state", data.state)

\* createdEmails.includes(email)
includes(list, email) == \E k \in DOMAIN list : list[k] = email

RetryKeyboard == << <<Button("retry", Token0("create_email"))>> >>
MenuKeyboard == << <<Button("menu", Token0("main_menu"))>> >>
AdminBackKeyboard == << <<Button("admin_panel", Token0("admin_panel"))>> >>

\* showMainMenu(chatId, env, messageId = null)
showMainMenu2(w, chatId, edit) ==
  Transport(w, IF edit THEN "edit" ELSE "send", chatId, "main_menu", Num(0), 0, 0,
    << <<Button("create", Token0("create_email"))>>,
       <<Button("random", Token0("random_address"))>>,
       <<Button("my_emails", Token0("my_emails"))>> >>
    \o (IF isAdmin(chatId) THEN << <<Button("admin", Token0("admin_panel"))>> >>
        ELSE <<>>))

\* requestEmailName(chatId, env)
requestEmailName2(w, chatId, t) ==
  LET w1 == kvGet(w, "user")
      userData == getUserData(w1, chatId)
      w2 == updateUserData(w1, chatId,
              [userData EXCEPT !.state = "awaiting_email_name"], t)
  IN sendMessage(w2, chatId, "name_prompt", MenuKeyboard)

\* createNewEmail(chatId, name, env)
createNewEmail2(w, chatId, name, t) ==
  IF ~NameRegexTest(name) THEN sendMessage(w, chatId, "invalid_name", RetryKeyboard)
  ELSE
    LET email == Address(name)
        w1 == kvGet(w, "email")
    IN IF HasEmail(w1, email) THEN sendMessage(w1, chatId, "address_taken", RetryKeyboard)
       ELSE
         LET w2 == kvPutEmail(w1, email, [inbox |-> <<>>, owner |-> chatId])
             w3 == kvGet(w2, "user")
             userData == getUserData(w3, chatId)
             pushed == IF includes(userData.createdEmails, email) THEN userData
                       ELSE [userData EXCEPT !.createdEmails = Append(@, email)]
             w4 == updateUserData(w3, chatId, pushed, t)
         IN sendMessage(w4, chatId, "created", MenuKeyboard)

\* listUserEmails(chatId, env)
listUserEmails2(w, chatId) ==
  LET w1 == kvGet(w, "user")
      userData == getUserData(w1, chatId)
  IN IF Len(userData.createdEmails) = 0
     THEN sendMessage(w1, chatId, "no_emails",
            << <<Button("create", Token0("create_email"))>> >>)
     ELSE sendMessage(w1, chatId, "email_list",
            [k \in DOMAIN userData.createdEmails |->
               << Button("inbox", Token1("view_inbox", userData.createdEmails[k])),
                  Button("delete", Token1("delete_email", userData.createdEmails[k])) >>]
            \o MenuKeyboard)

\* generateRandomAddress(chatId, env, messageId = null)
generateRandomAddress2(w, chatId, randomName, edit) ==
  TransportBody(w, IF edit THEN "edit" ELSE "send", chatId, "random_suggestion",
    Address(randomName),
    << <<Button("create", Token1("create_random", randomName))>>,
       <<Button("another", Token0("generate_another"))>> >> \o MenuKeyboard)

\* viewInbox(chatId, email, env, messageId = null)
viewInbox2(w, chatId, email, edit) ==
  LET w1 == kvGet(w, "email")
      keyboard == << <<Button("refresh", Token1("refresh_inbox", email))>>,
                     <<Button("back_emails", Token0("my_emails"))>> >>
  IN IF ~HasEmail(w1, email) THEN sendMessage(w1, chatId, "email_not_found", NoKeyboard)
     ELSE IF Len(w1.emails[email].inbox) = 0
     THEN Transport(w1, IF edit THEN "edit" ELSE "send", chatId, "inbox_empty",
                    Num(0), 0, 0, keyboard)
     ELSE Transport(w1, "document", chatId, "inbox_file", Num(0),
                    Len(w1.emails[email].inbox), 0, keyboard)

\* confirmDeleteEmail(chatId, messageId, email, env)
confirmDeleteEmail2(w, chatId, email) ==
  editMessage(w, chatId, "confirm_delete_email",
    << <<Button("confirm", Token1("delete_confirm", email)),
         Button("cancel", Token0("delete_cancel"))>> >>)

\* deleteEmail(chatId, messageId, email, env)
deleteEmail2(w, chatId, email, t) ==
  LET w1 == kvGet(w, "user")
      userData == getUserData(w1, chatId)
      w2 == updateUserData(w1, chatId,
              [userData EXCEPT !.createdEmails = filterOut(@, email)], t)
      w3 == kvDeleteEmail(w2, email)
  IN editMessage(w3, chatId, "email_deleted",
       << <<Button("back_emails", Token0("my_emails"))>> >>)

(* ----------------------- v2.0 admin and broadcast ---------------------- *)
\* showAdminPanel(chatId, env, messageId = null)
showAdminPanel2(w, chatId, edit) ==
  Transport(w, IF edit THEN "edit" ELSE "send", chatId, "admin_panel", Num(0), 0, 0,
    << <<Button("broadcast", Token0("admin_broadcast"))>>,
       <<Button("stats", Token0("admin_stats"))>>,
       <<Button("users", Token1("admin_list_users", <<"1">>))>> >> \o MenuKeyboard)

\* showAdminStats(chatId, messageId, env)
showAdminStats2(w, chatId) ==
  LET w1 == Log(Log(w, "list", "user"), "list", "email")
  IN Transport(w1, "edit", chatId, "admin_stats", Num(Cardinality(DOMAIN w1.emails)),
               Cardinality(DOMAIN w1.users), 0, AdminBackKeyboard)

\* listAllUsers(chatId, messageId, page, env): the placeholder of v2.0
listAllUsers2(w, chatId, page) ==
  LET w1 == Log(w, "list", "user")
  IN Transport(w1, "edit", chatId, "users_list", Num(0),
               Cardinality(DOMAIN w1.users), 0, AdminBackKeyboard)

\* requestBroadcastMessage(chatId, messageId, env)
requestBroadcastMessage(w, chatId, t) ==
  LET w1 == kvGet(w, "user")
      adminData == getUserData(w1, chatId)
      w2 == updateUserData(w1, chatId,
              [adminData EXCEPT !.state = "awaiting_broadcast_message"], t)
  IN editMessage(w2, chatId, "broadcast_prompt",
       << <<Button("cancel", Token0("broadcast_cancel"))>> >>)

\* confirmBroadcast(chatId, messageId, messageText, env)
confirmBroadcast(w, chatId, messageText, t) ==
  LET w1 == kvGet(w, "user")
      adminData == getUserData(w1, chatId)
      w2 == updateUserData(w1, chatId,
              [adminData EXCEPT !.broadcast_message = messageText], t)
  IN TransportBody(w2, "send", chatId, "broadcast_preview", messageText,
       << <<Button("confirm", Token0("broadcast_confirm")),
            Button("cancel", Token0("broadcast_cancel"))>> >>)

\* the detached loop of executeBroadcast: one send per listed user key
RECURSIVE fanOut(_, _, _)
fanOut(w, keys, messageText) ==
  IF keys = <<>> THEN w
  ELSE fanOut(TransportBody(w, "send", Head(keys), "broadcast", messageText, NoKeyboard),
              Tail(keys), messageText)

\* executeBroadcast up to its return: the draft is read and cleared and the
\* fan-out is handed to ctx.waitUntil
executeBroadcastHead(w, chatId, t) ==
  LET w1 == kvGet(w, "user")
      adminData == getUserData(w1, chatId)
      messageText == adminData.broadcast_message
  IN IF messageText = Undefined \/ messageText = <<>>
     THEN editMessage(w1, chatId, "broadcast_not_found", AdminBackKeyboard)
     ELSE
       LET w2 == editMessage(w1, chatId, "broadcast_started", NoKeyboard)
           w3 == updateUserData(w2, chatId,
                   [adminData EXCEPT !.broadcast_message = Undefined], t)
       IN Log(w3, "waitUntil", "fanOut")

\* executeBroadcast(chatId, messageId, env, ctx), with the fan-out run to its
\* end and every send delivered
executeBroadcast(w, chatId, t) ==
  LET messageText == getUserData(w, chatId).broadcast_message
  IN IF messageText = Undefined \/ messageText = <<>>
     THEN executeBroadcastHead(w, chatId, t)
     ELSE
       LET w4 == Log(executeBroadcastHead(w, chatId, t), "list", "user")
           allUserKeys == presentKeys(w4, ChatOrder)
           w5 == fanOut(w4, allUserKeys, messageText)
       IN Transport(w5, "send", chatId, "broadcast_report", Num(0),
                    Len(allUserKeys), 0, AdminBackKeyboard)

(* --------------------------- v2.0 dispatch ----------------------------- *)
\* the case labels of the switch in handleCallbackQuery
Actions2 ==
  {"main_menu", "create_email", "my_emails", "random_address", "create_random",
   "generate_another", "view_inbox", "refresh_inbox", "delete_email",
   "delete_confirm", "delete_cancel", "admin_panel", "admin_stats",
   "admin_list_users", "admin_broadcast", "broadcast_confirm", "broadcast_cancel",
   "admin_back"}

\* the body of each case
RunAction2(w, chatId, a, params, rnd, t) ==
  CASE a = "main_menu" -> showMainMenu2(w, chatId, TRUE)
    [] a = "create_email" -> requestEmailName2(w, chatId, t)
    [] a = "my_emails" -> listUserEmails2(w, chatId)
    [] a = "random_address" -> generateRandomAddress2(w, chatId, rnd, TRUE)
    [] a = "create_random" ->
         TransportBody(createNewEmail2(w, chatId, Param(params, 0), t), "edit", chatId,
                       "random_created", Param(params, 0), MenuKeyboard)
    [] a = "generate_another" -> generateRandomAddress2(w, chatId, rnd, TRUE)
    [] a = "view_inbox" -> viewInbox2(w, chatId, Param(params, 0), FALSE)
    [] a = "refresh_inbox" -> viewInbox2(w, chatId, Param(params, 0), TRUE)
    [] a = "delete_email" -> confirmDeleteEmail2(w, chatId, Param(params, 0))
    [] a = "delete_confirm" -> deleteEmail2(w, chatId, Param(params, 0), t)
    [] a = "delete_cancel" ->
         editMessage(w, chatId, "delete_cancelled",
           << <<Button("my_emails", Token0("my_emails"))>> >>)
    [] a = "admin_panel" -> showAdminPanel2(w, chatId, TRUE)
    [] a = "admin_stats" -> showAdminStats2(w, chatId)
    [] a = "admin_list_users" -> listAllUsers2(w, chatId, ParamIntOr(params, 0, 1))
    [] a = "admin_broadcast" -> requestBroadcastMessage(w, chatId, t)
    [] a = "broadcast_confirm" -> executeBroadcast(w, chatId, t)
    [] a = "broadcast_cancel" ->
         LET w1 == editMessage(w, chatId, "broadcast_cancelled", AdminBackKeyboard)
             w2 == kvGet(w1, "user")
             adminData == getUserData(w2, chatId)
         IN updateUserData(w2, chatId,
              [adminData EXCEPT !.broadcast_message = Undefined], t)
    [] a = "admin_back" -> showAdminPanel2(w, chatId, TRUE)

\* handleCallbackQuery(callbackQuery, env, ctx)
handleCallbackQuery2(w, chatId, data, rnd, t) ==
  LET parts == split(data, ":")
      action == Head(parts)
      params == Tail(parts)
      w1 == answerCallbackQuery(w, chatId, "")
      w2 == kvGet(w1, "user")
      userData == getUserData(w2, chatId)
      w3 == updateUserData(w2, chatId, userData, t)
  IN IF Len(action) = 1 /\ action[1] \in Actions2
     THEN RunAction2(Log(w3, "call", action[1]), chatId, action[1], params, rnd, t)
     ELSE w3

\* the command switch of handleMessage: text.toLowerCase()
RunCommand2(w, chatId, text, rnd, t) ==
  CASE text = <<"/", "start">> \/ text = <<"/", "menu">> -> showMainMenu2(w, chatId, FALSE)
    [] text = <<"/", "create">> -> requestEmailName2(w, chatId, t)
    [] text = <<"/", "my_emails">> \/ text = <<"/", "myemails">> ->
         listUserEmails2(w, chatId)
    [] text = <<"/", "random_address">> -> generateRandomAddress2(w, chatId, rnd, FALSE)
    [] text = <<"/", "admin">> ->
         IF isAdmin(chatId) THEN showAdminPanel2(w, chatId, FALSE)
         ELSE sendMessage(w, chatId, "not_admin", NoKeyboard)
    [] OTHER -> sendMessage(w, chatId, "unknown_command", NoKeyboard)

\* a faulty handleMessage that clears the state before it runs the handler
handleMessage2ClearFirst(w, chatId, rawText, rnd, t) ==
  LET text == trim(rawText)
      w1 == kvGet(w, "user")
      userData == getUserData(w1, chatId)
  IN IF userData.state # "null"
     THEN LET w2 == updateUserData(w1, chatId, [userData EXCEPT !.state = "null"], t)
          IN createNewEmail2(Log(w2, "call", "createNewEmail"), chatId,
                             Head(split(toLowerCase(text), " ")), t)
     ELSE IF startsWith(text, "/")
     THEN RunCommand2(Log(w1, "call", "command"), chatId, toLowerCase(text), rnd, t)
     ELSE w1

\* handleMessage(message, env)
handleMessage2(w, chatId, rawText, rnd, t) ==
  LET text == trim(rawText)
      w1 == kvGet(w, "user")
      userData == getUserData(w1, chatId)
  IN IF userData.state = "awaiting_email_name"
     THEN LET w2 == createNewEmail2(Log(w1, "call", "createNewEmail"), chatId,
                                    Head(split(toLowerCase(text), " ")), t)
          IN updateUserData(w2, chatId, [userData EXCEPT !.state = "null"], t)
     ELSE IF userData.state = "awaiting_broadcast_message"
     THEN (IF isAdmin(chatId)
           THEN LET w2 == confirmBroadcast(Log(w1, "call", "confirmBroadcast"),
                                           chatId, text, t)
                IN updateUserData(w2, chatId, [userData EXCEPT !.state = "null"], t)
           ELSE w1)
     ELSE IF startsWith(text, "/")
     THEN RunCommand2(Log(w1, "call", "command"), chatId, toLowerCase(text), rnd, t)
     ELSE w1

\* email(message, env): msg stands for the parsed from/subject/body
email2(w, rawTo, msg) ==
  LET to == toLowerCase(rawTo)
      w1 == kvGet(w, "email")
  IN IF ~HasEmail(w1, to) THEN Log(w1, "setReject", "email")
     ELSE
       LET box == w1.emails[to]
           w2 == kvPutEmail(w1, to,
                   [box EXCEPT !.inbox = <<Message(msg, FALSE)>> \o @])
       IN sendMessage(w2, box.owner, "new_mail", NoKeyboard)

(* ==================== v7.1: unnamed/part_002 1-414 ===================== *)
\* the state tags the switch of handleMessage binds a handler to
StateTags7 ==
  {"awaiting_email_name", "awaiting_forward_email", "awaiting_broadcast_message",
   "awaiting_user_id_search", "awaiting_welcome_message"}

\* a handler whose code is not part of this file ("omitted for brevity") or
\* whose body is elided: only the fact that it was called is kept
\* (its awaited body may reject like any other I/O)
Handler7(w, name) == Await(Log(w, "call", name), name, Log(w, "call", name))

\* showMainMenu(chatId, env, messageId = null)
showMainMenu7(w, chatId, edit) ==
  Transport(kvGet(w, "system_message"), IF edit THEN "edit" ELSE "send", chatId,
    "main_menu", Num(0), 0, 0,
    << <<Button("create", Token0("create_email"))>>,
       <<Button("random", Token0("random_address"))>>,
       <<Button("my_emails", Token0("my_emails"))>>,
       <<Button("forwarding", Token0("setup_forwarding"))>> >>
    \o (IF isAdmin(chatId) THEN << <<Button("admin", Token0("admin_panel"))>> >>
        ELSE <<>>))

\* showAdminPanel(chatId, env, messageId)
showAdminPanel7(w, chatId, edit) ==
  Transport(w, IF edit THEN "edit" ELSE "send", chatId, "admin_panel", Num(0), 0, 0,
    << <<Button("users", Token0("admin_user_management"))>>,
       <<Button("bot", Token0("admin_bot_management"))>>,
       <<Button("stats", Token0("admin_stats"))>> >> \o MenuKeyboard)

\* the switch on userData.state in handleMessage
RunState7(w, chatId, state) ==
  CASE state = "awaiting_email_name" -> Handler7(w, "createNewEmail")
    [] state = "awaiting_forward_email" -> Handler7(w, "setForwardEmail")
    [] state = "awaiting_broadcast_message" ->
         IF isAdmin(chatId) THEN Handler7(w, "confirmBroadcast") ELSE w
    [] state = "awaiting_user_id_search" ->
         IF isAdmin(chatId) THEN Handler7(w, "showUserDetailsForAdmin") ELSE w
    [] state = "awaiting_welcome_message" ->
         IF isAdmin(chatId) THEN Handler7(w, "saveWelcomeMessage") ELSE w

\* the command switch of handleMessage: text.toLowerCase()
RunCommand7(w, chatId, text) ==
  CASE text = <<"/", "start">> \/ text = <<"/", "menu">> -> showMainMenu7(w, chatId, FALSE)
    [] text = <<"/", "my_emails">> -> Handler7(w, "listUserEmails")
    [] text = <<"/", "create_email">> -> Handler7(w, "requestEmailName")
    [] text = <<"/", "admin_panel">> ->
         IF isAdmin(chatId) THEN showAdminPanel7(w, chatId, FALSE) ELSE w
    [] text = <<"/", "setup_menu">> ->
         IF isAdmin(chatId) THEN Handler7(w, "setupCommands") ELSE w
    [] OTHER -> sendMessage(w, chatId, "unknown_command", NoKeyboard)

\* a faulty handleMessage that does not look at the ban flag
handleMessage7NoBanCheck(w, chatId, rawText, t) ==
  LET text == trim(rawText)
      w1 == kvGet(w, "user")
      userData == getUserData(w1, chatId)
      w2 == updateUserData(w1, chatId, userData, t)
  IN IF userData.state \in StateTags7
     THEN updateUserData(RunState7(w2, chatId, userData.state), chatId,
                         [userData EXCEPT !.state = "null"], t)
     ELSE IF startsWith(text, "/")
     THEN RunCommand7(Log(w2, "call", "command"), chatId, toLowerCase(text))
     ELSE w2

\* handleMessage(message, env)
handleMessage7(w, chatId, rawText, t) ==
  LET text == trim(rawText)
      w1 == kvGet(w, "user")
      userData == getUserData(w1, chatId)
  IN IF userData.isBanned THEN w1
     ELSE
       LET w2 == updateUserData(w1, chatId, userData, t)
       IN IF userData.state \in StateTags7
          THEN updateUserData(RunState7(w2, chatId, userData.state), chatId,
                              [userData EXCEPT !.state = "null"], t)
          ELSE IF startsWith(text, "/")
          THEN RunCommand7(Log(w2, "call", "command"), chatId, toLowerCase(text))
          ELSE w2

\* the request handlers that arm a state (requestEmailName, requestForwardEmail,
\* requestBroadcastMessage, requestUserIdSearch, requestWelcomeMessage): they
\* persist the tag in the user's record
requestState7(w, chatId, tag, t) ==
  LET w1 == kvGet(w, "user")
      userData == getUserData(w1, chatId)
  IN updateUserData(w1, chatId, [userData EXCEPT !.state = tag], t)

\* the callback action that arms a state tag (handleCallbackQuery binds it to
\* the request handler of the flow)
ArmAction7(tag) ==
  CASE tag = "awaiting_email_name" -> "create_email"
    [] tag = "awaiting_forward_email" -> "set_forward_email"
    [] tag = "awaiting_broadcast_message" -> "admin_broadcast"
    [] tag = "awaiting_user_id_search" -> "admin_search_user"
    [] tag = "awaiting_welcome_message" -> "admin_edit_welcome"

\* banUser / unbanUser(chatId, messageId, targetUserId, fromPage, env): an
\* admin sets or clears the ban flag of the target's record
setBanned7(w, chatId, targetUserId, flag) ==
  IF ~isAdmin(chatId) THEN w
  ELSE LET w1 == kvGet(w, "user")
           userData == getUserData(w1, targetUserId)
       IN kvPutUser(w1, targetUserId, [userData EXCEPT !.isBanned = flag])

\* params.map(p => decode(p)): the first malformed parameter throws
decodeParams(params) ==
  IF \A i \in DOMAIN params : decode(params[i]).ok
  THEN [ok |-> TRUE, val |-> [i \in DOMAIN params |-> decode(params[i]).val]]
  ELSE URIError

\* the names the chain of `if (action === ...)` of handleCallbackQuery tests
Actions7 ==
  {"main_menu", "create_email", "random_address", "create_random", "generate_another",
   "my_emails", "view_inbox", "view_email", "view_email_clean", "view_email_raw",
   "delete_email_prompt", "delete_email_confirm", "setup_forwarding",
   "set_forward_email", "remove_forward_email", "admin_panel",
   "admin_user_management", "admin_bot_management", "admin_list_users",
   "list_users_page", "admin_search_user", "admin_view_user", "admin_ban_user",
   "admin_unban_user", "admin_stats", "admin_stats_refresh", "admin_broadcast",
   "broadcast_confirm", "broadcast_cancel", "admin_health_check",
   "admin_edit_welcome", "admin_cleanup_prompt", "admin_cleanup_confirm"}

\* the chain of `if (action === ...)` of handleCallbackQuery, for the actions
\* whose tokens the model sends; an action no `if` names runs nothing
RunAction7(w, chatId, a, params, t) ==
  LET w0 == Log(w, "call", a)
  IN CASE a = "main_menu" -> showMainMenu7(w0, chatId, TRUE)
       [] a = "my_emails" -> Handler7(w0, "listUserEmails")
       [] a = "admin_panel" -> showAdminPanel7(w0, chatId, TRUE)
       [] \E tag \in StateTags7 : ArmAction7(tag) = a ->
            requestState7(w0, chatId,
                          CHOOSE tag \in StateTags7 : ArmAction7(tag) = a, t)
       [] a = "admin_ban_user" -> setBanned7(w0, chatId, Param(params, 0), TRUE)
       [] a = "admin_unban_user" -> setBanned7(w0, chatId, Param(params, 0), FALSE)
       [] OTHER -> w

\* a faulty handleCallbackQuery that drops a banned user's press without
\* answering it
handleCallbackQuery7SilentBan(w, chatId, data, t) ==
  LET w1 == kvGet(w, "user")
      userData == getUserData(w1, chatId)
  IN IF userData.isBanned THEN w1
     ELSE
       LET w2 == updateUserData(w1, chatId, userData, t)
           w3 == answerCallbackQuery(w2, chatId, "")
           parts == split(data, ":")
           decodedParams == decodeParams(Tail(parts))
       IN IF ~decodedParams.ok THEN Throw(w3, "URIError")
          ELSE IF Len(Head(parts)) = 1
          THEN RunAction7(w3, chatId, Head(parts)[1], decodedParams.val, t)
          ELSE w3

\* handleCallbackQuery(callbackQuery, env, ctx)
handleCallbackQuery7(w, chatId, data, t) ==
  LET w1 == kvGet(w, "user")
      userData == getUserData(w1, chatId)
  IN IF userData.isBanned THEN answerCallbackQuery(w1, chatId, "banned")
     ELSE
       LET w2 == updateUserData(w1, chatId, userData, t)
           w3 == answerCallbackQuery(w2, chatId, "")
           parts == split(data, ":")
           decodedParams == decodeParams(Tail(parts))
       IN IF ~decodedParams.ok THEN Throw(w3, "URIError")
          ELSE IF Len(Head(parts)) = 1
          THEN RunAction7(w3, chatId, Head(parts)[1], decodedParams.val, t)
          ELSE w3

\* a faulty email that files the mail of an unknown address instead of
\* rejecting it
email7NoReject(w, rawTo, msg) ==
  LET to == toLowerCase(rawTo)
      w1 == kvGet(w, "email")
  IN IF ~HasEmail(w1, to)
     THEN kvPutEmail(w1, to, [inbox |-> <<Message(msg, FALSE)>>, owner |-> Undefined])
     ELSE
       LET box == w1.emails[to]
           w2 == kvPutEmail(w1, to,
                   [box EXCEPT !.inbox = <<Message(msg, FALSE)>> \o @])
           w3 == sendMessage(w2, box.owner, "new_mail", NoKeyboard)
           w4 == kvGet(w3, "user")
           userData == getUserData(w4, box.owner)
       IN IF userData.forwardEmail # Undefined
          THEN Handler7(w4, "forwardEmailWithThirdParty")
          ELSE w4

\* email(message, env): the new message has no read field (it reads as unread)
email7(w, rawTo, msg) ==
  LET to == toLowerCase(rawTo)
      w1 == kvGet(w, "email")
  IN IF ~HasEmail(w1, to) THEN Log(w1, "setReject", "email")
     ELSE
       LET box == w1.emails[to]
           w2 == kvPutEmail(w1, to,
                   [box EXCEPT !.inbox = <<Message(msg, FALSE)>> \o @])
           w3 == sendMessage(w2, box.owner, "new_mail", NoKeyboard)
           w4 == kvGet(w3, "user")
           userData == getUserData(w4, box.owner)
       IN IF userData.forwardEmail # Undefined
          THEN Handler7(w4, "forwardEmailWithThirdParty")
          ELSE w4

\* the email entry point of each variant
emailOf(v, w, rawTo, msg) ==
  CASE v = "v5" -> email5(w, rawTo, msg)
    [] v = "v2" -> email2(w, rawTo, msg)
    [] v = "v7" -> email7(w, rawTo, msg)

(* ============================== inputs ================================ *)
Variants == {"v5", "v2", "v7"}

\* a name generateRandomAddress can draw: `${city}.${noun}${number}`
NAME_R == <<"b","a","g","o",".","b","o","x","1","0","0">>
NameInputs == {NAME_R}
RandomNames == {NAME_R}
AddrInputs == {Address(n) : n \in NameInputs}

\* free text a chat may send
TextInputs ==
  { NAME_R, <<"H", "i", "!", " ", "a", "l", "l">>,
    <<"/", "start">>, <<"/", "my_emails">>, <<"/", "create">>,
    <<"/", "random_address">>, <<"/", "admin">> }

IndexInputs == {natToStr(i) : i \in 0..MaxInbox}
PageInputs == {<<"1">>, <<"2">>}

\* callback data a chat may send: the tokens the views render, and stale or
\* guessed ones (another chat's address, an index past the end)
CallbackInputs5 ==
  {Token0(a) : a \in {"panel_my_emails", "panel_create", "panel_random",
                       "delete_cancel", "generate_another", "admin_panel",
                       "admin_stats", "no_such_action", "toString", "__proto__"}}
  \cup {Token1(a, e) : a \in {"delete_email", "delete_confirm", "view_inbox"},
                       e \in AddrInputs}
  \cup {Token1("create_random", n) : n \in NameInputs}
  \cup {Token1(a, c) : a \in {"admin_view_user"}, c \in ChatIds}
  \cup {Token1(a, n) : a \in {"admin_list_users", "admin_inactive_users"},
                       n \in {<<"1">>}}
  \cup {Token2("view_inbox", e, p) : e \in AddrInputs, p \in PageInputs}
  \cup {Token2(a, e, i) : a \in {"view_email", "mark_unread", "delete_single_confirm",
                                  "delete_single_execute"},
                          e \in AddrInputs, i \in IndexInputs}
  \cup {Token2(a, e, c) : a \in {"admin_delete_user_email_confirm",
                                  "admin_delete_user_email_execute"},
                          e \in AddrInputs, c \in ChatIds}

\* free text and callback data of the v2.0 bot
TextInputs2 ==
  { NAME_R, <<"H", "i", "!", " ", "a", "l", "l">>,
    <<"/", "start">>, <<"/", "create">>, <<"/", "admin">> }

CallbackInputs2 ==
  {Token0(a) : a \in {"main_menu", "create_email", "my_emails", "random_address",
                       "generate_another", "delete_cancel", "admin_panel",
                       "admin_stats", "admin_broadcast", "broadcast_confirm",
                       "broadcast_cancel", "admin_back", "no_such_action"}}
  \cup {Token1(a, e) : a \in {"view_inbox", "refresh_inbox", "delete_email",
                               "delete_confirm"},
                       e \in AddrInputs}
  \cup {Token1("create_random", n) : n \in NameInputs}
  \cup {Token1("admin_list_users", <<"1">>)}

\* free text of the v7.1 bot
TextInputs7 == { NAME_R, <<"/", "start">>, <<"/", "bogus">> }

\* callback data of the v7.1 bot (the arming presses are Request7's)
CallbackInputs7 ==
  {Token0(a) : a \in {"main_menu", "my_emails", "admin_panel", "no_such_action"}}
  \cup {Token1(a, c) : a \in {"admin_ban_user", "admin_unban_user"}, c \in ChatIds}
  \cup {Token1("no_such_action", <<"%">>)}

\* which awaited call of a v7.1 callback event rejects, if any
Faults7 == {NoFault} \cup 0..MaxFault

\* new Date(): time does not run backwards
Times(w) == {t \in 0..MaxTime : \A c \in DOMAIN w.users : w.users[c].lastActive <= t}

\* the model's bounds on what is stored
Bounded(w) ==
  /\ \A c \in DOMAIN w.users : Len(w.users[c].createdEmails) <= MaxCreated
  /\ \A a \in DOMAIN w.emails : Len(w.emails[a].inbox) <= MaxInbox

\* the content of an arriving mail: one no message of that inbox has
FreshMsg(w, to) ==
  IF ~HasEmail(w, to) THEN 1
  ELSE CHOOSE m \in 1..(MaxInbox + 1) :
         /\ \A k \in DOMAIN w.emails[to].inbox : w.emails[to].inbox[k].id # m
         /\ \A n \in 1..(m - 1) :
              \E k \in DOMAIN w.emails[to].inbox : w.emails[to].inbox[k].id = n

Event(kind, chat, data, reply, t) ==
  [kind |-> kind, chat |-> chat, data |-> data, reply |-> reply, t |-> t]

Commit(w, e) ==
  /\ Bounded(w)
  /\ users' = w.users
  /\ emails' = w.emails
  /\ log' = w.log
  /\ out' = w.out
  /\ ev' = e
  /\ UNCHANGED variant

(* ============================= behaviour ============================== *)
Init ==
  /\ variant \in Variants
  /\ users = [c \in {} |-> NewUser]
  /\ emails = [a \in {} |-> [inbox |-> <<>>, owner |-> <<"1">>]]
  /\ ev = Event("init", <<>>, <<>>, FALSE, 0)
  /\ log = <<>>
  /\ out = <<>>

\* a chat sends a message to the v5.0 webhook
Message5(c, text, reply) ==
  /\ variant = "v5"
  /\ \E t \in Times(World), rnd \in RandomNames :
       Commit(handleMessage5(World, c, text, reply, rnd, t),
              Event("message", c, text, reply, t))

\* a chat presses a button (or sends a stale or guessed token)
Callback5(c, data) ==
  /\ variant = "v5"
  /\ \E t \in Times(World), rnd \in RandomNames :
       Commit(handleCallbackQuery5(World, c, data, rnd, t),
              Event("callback", c, data, FALSE, t))

\* a mail arrives through Email Routing
Email5(to) ==
  /\ variant = "v5"
  /\ Commit(email5(World, to, FreshMsg(World, toLowerCase(to))),
            Event("email", <<>>, to, FALSE, 0))

\* a chat sends a message to the v2.0 webhook
Message2(c, text) ==
  /\ variant = "v2"
  /\ \E t \in Times(World), rnd \in RandomNames :
       Commit(handleMessage2(World, c, text, rnd, t),
              Event("message", c, text, FALSE, t))

\* a chat presses a button of the v2.0 bot
Callback2(c, data) ==
  /\ variant = "v2"
  /\ \E t \in Times(World), rnd \in RandomNames :
       Commit(handleCallbackQuery2(World, c, data, rnd, t),
              Event("callback", c, data, FALSE, t))

\* a mail arrives at the v2.0 worker
Email2(to) ==
  /\ variant = "v2"
  /\ Commit(email2(World, to, FreshMsg(World, toLowerCase(to))),
            Event("email", <<>>, to, FALSE, 0))

\* a chat sends a message to the v7.1 webhook
Message7(c, text) ==
  /\ variant = "v7"
  /\ \E t \in Times(World) :
       Commit(handleMessage7(World, c, text, t), Event("message", c, text, FALSE, t))

\* a chat presses a button of the v7.1 bot that arms a state
Request7(c, tag) ==
  /\ variant = "v7"
  /\ \E t \in Times(World) :
       Commit(handleCallbackQuery7(World, c, Token0(ArmAction7(tag)), t),
              Event("callback", c, Token0(ArmAction7(tag)), FALSE, t))

\* a mail arrives at the v7.1 worker
Email7(to) ==
  /\ variant = "v7"
  /\ Commit(email7(World, to, FreshMsg(World, toLowerCase(to))),
            Event("email", <<>>, to, FALSE, 0))

\* a chat presses another button of the v7.1 bot; the fault-th awaited call of
\* the event rejects
Callback7(c, data, fault) ==
  /\ variant = "v7"
  /\ \E t \in Times(World) :
       Commit(handleCallbackQuery7([World EXCEPT !.fuel = fault], c, data, t),
              Event("callback", c, data, FALSE, t))

Next ==
  \/ \E c \in ChatIds, text \in TextInputs, reply \in BOOLEAN : Message5(c, text, reply)
  \/ \E c \in ChatIds, data \in CallbackInputs5 : Callback5(c, data)
  \/ \E to \in AddrInputs : Email5(to)
  \/ \E c \in ChatIds, text \in TextInputs2 : Message2(c, text)
  \/ \E c \in ChatIds, data \in CallbackInputs2 : Callback2(c, data)
  \/ \E to \in AddrInputs : Email2(to)
  \/ \E c \in ChatIds, text \in TextInputs7 : Message7(c, text)
  \/ \E to \in AddrInputs : Email7(to)
  \/ \E c \in ChatIds, tag \in StateTags7 : Request7(c, tag)
  \/ \E c \in ChatIds, data \in CallbackInputs7, fault \in Faults7 :
       Callback7(c, data, fault)

Spec == Init /\ [][Next]_vars

(* ================= one mailbox under the v5.0 inbox views ============== *)
\* the mailbox the views are exercised on, and the chat that owns it
ADDR == Address(NAME_R)
OWNER == <<"1">>

\* an inbox of n messages, newest first (email() prepends); pattern says which
\* of them have been opened
InboxOf(n, pattern) ==
  [k \in 1..n |->
     Message(n - k + 1,
             CASE pattern = "none" -> FALSE
               [] pattern = "all" -> TRUE
               [] pattern = "odd" -> k % 2 = 1)]

\* (only v5.0 keeps a read flag; the views below are the v5.0 ones)
\* requested pages: negative, zero, in range and past the last page
PageRange == (0 - 1)..3
InboxPages == {numToStr(Num(p)) : p \in PageRange}
InboxIndices == {natToStr(i) : i \in 0..MaxN}

InboxCallbacks ==
  {Token1("view_inbox", ADDR)}
  \cup {Token2("view_inbox", ADDR, p) : p \in InboxPages}
  \cup {Token2(a, ADDR, i) : a \in {"view_email", "mark_unread", "delete_single_confirm",
                                   "delete_single_execute"},
                            i \in InboxIndices}

InitInbox ==
  /\ variant \in Variants
  /\ \E n \in 0..MaxN, pattern \in {"none", "all", "odd"} :
       /\ variant # "v5" => pattern = "none"
       /\ emails = [a \in {ADDR} |-> [inbox |-> InboxOf(n, pattern), owner |-> OWNER]]
  /\ users = [c \in {OWNER} |-> [NewUser EXCEPT !.createdEmails = <<ADDR>>,
                                                !.lastActive = 0]]
  /\ ev = Event("init", <<>>, <<>>, FALSE, 0)
  /\ log = <<>>
  /\ out = <<>>

\* the owner presses a button of an inbox view (or replays a stale token)
InboxCallback(data) ==
  /\ variant = "v5"
  /\ ev.t < MaxOps
  /\ \E rnd \in RandomNames :
       LET w == handleCallbackQuery5(World, OWNER, data, rnd, ev.t + 1)
       IN /\ users' = w.users
          /\ emails' = w.emails
          /\ log' = w.log
          /\ out' = w.out
          /\ ev' = Event("callback", OWNER, data, FALSE, ev.t + 1)
          /\ UNCHANGED variant

\* a mail arrives at the mailbox
InboxArrival ==
  /\ ev.t < MaxOps
  /\ Len(emails[ADDR].inbox) < MaxN
  /\ LET w == emailOf(variant, World, ADDR, MaxN + ev.t + 1)
     IN /\ users' = w.users
        /\ emails' = w.emails
        /\ log' = w.log
        /\ out' = w.out
        /\ ev' = Event("email", <<>>, ADDR, FALSE, ev.t + 1)
        /\ UNCHANGED variant

NextInbox ==
  \/ \E data \in InboxCallbacks : InboxCallback(data)
  \/ InboxArrival

SpecInbox == InitInbox /\ [][NextInbox]_vars

(* ================ the list view of a mailbox of many pages ============= *)
\* a mailbox of up to MaxList messages, enough for three pages
InitList ==
  /\ variant = "v5"
  /\ \E n \in 0..MaxList, pattern \in {"none", "all", "odd"} :
       emails = [a \in {ADDR} |-> [inbox |-> InboxOf(n, pattern), owner |-> OWNER]]
  /\ users = [c \in {OWNER} |-> [NewUser EXCEPT !.createdEmails = <<ADDR>>,
                                                !.lastActive = 0]]
  /\ ev = Event("init", <<>>, <<>>, FALSE, 0)
  /\ log = <<>>
  /\ out = <<>>

\* the owner asks for a page of the list, or a mail arrives
NextList ==
  \/ \E p \in InboxPages \cup {<<"4">>} :
       InboxCallback(Token2("view_inbox", ADDR, p))
  \/ InboxCallback(Token1("view_inbox", ADDR))
  \/ InboxArrival

SpecList == InitList /\ [][NextList]_vars

(* ============== callback tokens of v7.1: build and route ============== *)
\* the characters argument strings are drawn from: the delimiter and the
\* escape character
ArgChars == {":", "%"}

RECURSIVE StringsUpTo(_, _)
StringsUpTo(chars, n) ==
  IF n = 0 THEN {<<>>}
  ELSE LET shorter == StringsUpTo(chars, n - 1)
       IN shorter \cup {Append(x, ch) : x \in shorter, ch \in chars}

\* argument strings: the short ones, an address ("@" and unreserved
\* characters), a non-ASCII character and a string that reads as an escape
ArgInputs ==
  StringsUpTo(ArgChars, MaxArgLen) \cup {ADDR, <<"U+00E9">>, <<"%", "2", "5">>}

RECURSIVE ListsUpTo(_, _)
ListsUpTo(items, n) ==
  IF n = 0 THEN {<<>>}
  ELSE LET shorter == ListsUpTo(items, n - 1)
       IN shorter \cup {Append(x, i) : x \in shorter, i \in items}

\* `${action}:${encode(arg1)}:...:${encode(argK)}`
RECURSIVE joinEncoded(_)
joinEncoded(args) ==
  IF args = <<>> THEN <<>>
  ELSE <<":">> \o encode(Head(args)) \o joinEncoded(Tail(args))

\* an action and an ordered list of arguments to make a token of
InitToken ==
  /\ variant = "v7"
  /\ users = [c \in {} |-> NewUser]
  /\ emails = [a \in {} |-> [inbox |-> <<>>, owner |-> <<"1">>]]
  /\ \E action \in {"view_inbox", "admin_ban_user"},
        args \in ListsUpTo(ArgInputs, MaxArgs) :
       ev = Event("args", <<>>, <<<<action>>>> \o args, FALSE, 0)
  /\ log = <<>>
  /\ out = <<>>

\* a view renders the button: its callback_data is the token
BuildToken ==
  /\ ev.kind = "args"
  /\ out' = <<Head(ev.data) \o joinEncoded(Tail(ev.data))>>
  /\ ev' = [ev EXCEPT !.kind = "built"]
  /\ UNCHANGED <<variant, users, emails, log>>

\* the button is pressed: handleCallbackQuery splits the data and decodes the
\* parameters
RouteToken ==
  /\ ev.kind = "built"
  /\ LET parts == split(out[1], ":")
         decodedParams == decodeParams(Tail(parts))
     IN log' = <<[op |-> IF decodedParams.ok THEN "route" ELSE "throw",
                  arg |-> <<Head(parts)>> \o decodedParams.val]>>
  /\ ev' = [ev EXCEPT !.kind = "routed"]
  /\ UNCHANGED <<variant, users, emails, out>>

NextToken == BuildToken \/ RouteToken

SpecToken == InitToken /\ [][NextToken]_vars

(* ================= two events in flight on one record ================= *)
\* An event is not atomic: its handler awaits the KV read of a record, and the
\* runtime may run another event before the handler goes on to its write. Up
\* to three events are in flight. On the v5.0 bot each is a mail arrival or a
\* press of the owner on a button of the single-message view (the record is
\* the Mailbox); on the v2.0 bot each is the text the admin sends for
\* broadcast or a press of the admin on the confirm button of its preview
\* (the record is the admin's user record).
Tasks == {"A", "B", "C"}
RaceOps5 == {"email", "view_email", "mark_unread", "delete_single_execute"}
RaceOps2 == {"text", "broadcast_confirm"}
RaceOps == RaceOps5 \cup RaceOps2

\* the text the admin has sent for broadcast, and the other chat
DRAFT == <<"H", "i", "!", " ", "a", "l", "l">>
OTHER_CHAT == <<"2">>

IdleTask ==
  [pc |-> "idle", op |-> "none", idx |-> 0, msg |-> 0,
   snap |-> [inbox |-> <<>>, owner |-> OWNER]]

\* the content of the mail an arrival carries
TaskMsg(k) == CASE k = "A" -> MaxN + 1 [] k = "B" -> MaxN + 2 [] OTHER -> MaxN + 3

\* a handler that re-reads the record when it resumes: events would be serial
SnapshotWorldFresh(task) == World

\* the world a handler resumes in after its await: the record it holds is the
\* one its get returned, whatever the store holds by now
SnapshotWorld(task) ==
  IF task.op \in RaceOps2
  THEN [World EXCEPT !.users = [users EXCEPT ![OWNER] = task.snap]]
  ELSE [World EXCEPT !.emails = [emails EXCEPT ![ADDR] = task.snap]]

\* v5.0: a mailbox of the owner; v2.0: the admin has pressed admin_broadcast
\* and is asked for the text
InitRace ==
  /\ variant \in {"v5", "v2"}
  /\ \E n \in 0..MaxRace, pattern \in {"none", "all", "odd"} :
       /\ variant = "v2" => pattern = "none"
       /\ emails = [a \in {ADDR} |-> [inbox |-> InboxOf(n, pattern), owner |-> OWNER]]
  /\ users = [c \in {OWNER, OTHER_CHAT} |->
               IF c = OWNER
               THEN [NewUser EXCEPT !.createdEmails = <<ADDR>>, !.lastActive = 0,
                                    !.state =
                                       IF variant = "v2"
                                       THEN "awaiting_broadcast_message" ELSE "null"]
               ELSE [NewUser EXCEPT !.lastActive = 0]]
  /\ ev = Event("race", OWNER, [k \in Tasks |-> IdleTask], FALSE, 0)
  /\ log = <<>>
  /\ out = <<>>

\* an event starts and runs up to the return of its get of the record (a
\* press is acknowledged and tracked first); a press is on a button that the
\* view of the current inbox shows. The free text of the admin runs up to the
\* return of confirmBroadcast, with the record handleMessage has read before.
StartTask(k, op, i) ==
  /\ ev.data[k].pc = "idle"
  /\ op \in (IF variant = "v2" THEN RaceOps2 ELSE RaceOps5)
  /\ IF op \in {"email", "broadcast_confirm", "text"} THEN i = 0
     ELSE i < Len(emails[ADDR].inbox)
  /\ op = "text" => users[OWNER].state = "awaiting_broadcast_message"
  /\ LET w == CASE op = "email" -> kvGet(World, "email")
                [] op = "text" ->
                     confirmBroadcast(Log(kvGet(World, "user"), "call", "confirmBroadcast"),
                                      OWNER, DRAFT, 0)
                [] op = "broadcast_confirm" ->
                     LET w1 == kvGet(answerCallbackQuery(World, OWNER, ""), "user")
                     IN kvGet(updateUserData(w1, OWNER, getUserData(w1, OWNER), 0), "user")
                [] OTHER ->
                     kvGet(trackUserActivity(answerCallbackQuery(World, OWNER, "working"),
                                             OWNER, 0), "email")
     IN /\ users' = w.users
        /\ ev' = [ev EXCEPT !.data[k] =
                    [pc |-> "read", op |-> op, idx |-> i, msg |-> TaskMsg(k),
                     snap |-> CASE op = "broadcast_confirm" -> w.users[OWNER]
                                [] op = "text" -> users[OWNER]
                                [] OTHER -> emails[ADDR]]]
  /\ UNCHANGED <<variant, emails, log, out>>

\* the event resumes and runs to its end; log keeps the completed events
FinishTask(k) ==
  /\ ev.data[k].pc = "read"
  /\ LET task == ev.data[k]
         w0 == SnapshotWorld(task)
         w == CASE task.op = "email" -> email5(w0, ADDR, task.msg)
                [] task.op = "broadcast_confirm" -> executeBroadcast(w0, OWNER, 0)
                [] task.op = "text" ->
                     updateUserData(w0, OWNER, [task.snap EXCEPT !.state = "null"], 0)
                [] OTHER ->
                     RunAction5(w0, OWNER, task.op, <<ADDR, natToStr(task.idx)>>,
                                NAME_R, 0)
     IN /\ emails' = IF \E j \in DOMAIN w.log : w.log[j] = [op |-> "put", arg |-> "email"]
                     THEN w.emails ELSE emails
        /\ users' = IF \E j \in DOMAIN w.log : w.log[j] = [op |-> "put", arg |-> "user"]
                    THEN w.users ELSE users
        /\ out' = w.out
        /\ log' = Append(log,
                     [op |-> task.op,
                      arg |-> CASE task.op = "email" -> task.msg
                                [] task.op = "broadcast_confirm" ->
                                     Cardinality({j \in DOMAIN w.log :
                                                    w.log[j].op = "waitUntil"})
                                [] OTHER -> task.idx])
        /\ ev' = [ev EXCEPT !.data[k].pc = "done"]
  /\ UNCHANGED variant

NextRace ==
  \/ \E k \in Tasks, op \in RaceOps, i \in 0..MaxRace : StartTask(k, op, i)
  \/ \E k \in Tasks : FinishTask(k)

SpecRace == InitRace /\ [][NextRace]_vars

(* ===================== the broadcast fan-out (v2.0) ==================== *)
\* The admin has pressed admin_broadcast and is asked for the text. The text
\* event stores the draft and shows the preview; the press on its confirm
\* button is answered by fetch at once, the handler runs under ctx.waitUntil
\* and hands the fan-out to ctx.waitUntil in turn. ev.data holds the position
\* of the text event (msg), of the handler and of the fan-out.
BroadcastOrder == [i \in 1..MaxChats |-> natToStr(i)]
BroadcastChats == {BroadcastOrder[i] : i \in 1..MaxChats}

\* what the fetch of a send may do: deliver, come back with an HTTP error
\* (the bot is blocked, the chat is gone), or reject (no connection)
SendOutcomes == {"ok", "refused", "rejected"}

IdleBroadcast ==
  [msg |-> "none", snap |-> NewUser, resp |-> FALSE, handler |-> "none",
   fan |-> "none", text |-> Undefined, listed |-> <<>>, rest |-> <<>>,
   sent |-> 0, failed |-> 0, tried |-> <<>>]

InitBroadcast ==
  /\ variant = "v2"
  /\ \E S \in SUBSET BroadcastChats :
       /\ OWNER \in S
       /\ users = [c \in S |->
                    IF c = OWNER
                    THEN [NewUser EXCEPT !.lastActive = 0,
                                         !.state = "awaiting_broadcast_message"]
                    ELSE [NewUser EXCEPT !.lastActive = 0]]
  /\ emails = [a \in {} |-> [inbox |-> <<>>, owner |-> OWNER]]
  /\ ev = Event("broadcast", OWNER, IdleBroadcast, FALSE, 0)
  /\ log = <<>>
  /\ out = <<>>

\* handleMessage up to the return of confirmBroadcast: the draft is stored and
\* the preview is shown; snap is the record handleMessage has read before
BroadcastText ==
  /\ ev.data.msg = "none"
  /\ LET w == confirmBroadcast(Log(kvGet(World, "user"), "call", "confirmBroadcast"),
                               OWNER, DRAFT, 0)
     IN /\ users' = w.users
        /\ out' = w.out
        /\ log' = w.log
        /\ ev' = [ev EXCEPT !.data.msg = "read", !.data.snap = users[OWNER]]
  /\ UNCHANGED <<variant, emails>>

\* handleMessage after confirmBroadcast: the state is cleared on the record
\* read at the start and that record is written
BroadcastTextEnd ==
  /\ ev.data.msg = "read"
  /\ LET w == updateUserData(World, OWNER, [ev.data.snap EXCEPT !.state = "null"], 0)
     IN users' = w.users
  /\ ev' = [ev EXCEPT !.data.msg = "done"]
  /\ UNCHANGED <<variant, emails, log, out>>

\* fetch: the press on the confirm button of the preview arrives; the handler
\* is handed to ctx.waitUntil and the response is returned
BroadcastPress ==
  /\ ev.data.msg # "none"
  /\ ev.data.handler = "none"
  /\ ev' = [ev EXCEPT !.data.handler = "running", !.data.resp = TRUE]
  /\ UNCHANGED <<variant, users, emails, log, out>>

\* a handler that awaits the fan-out it has started
handlerAfterWaitUntilAwaited(started) == IF started THEN "awaiting" ELSE "returned"

\* where the handler is once executeBroadcast has made its last call: the
\* promise handed to ctx.waitUntil is not awaited
handlerAfterWaitUntil(started) == "returned"

\* handleCallbackQuery for broadcast_confirm, up to the return of
\* executeBroadcast
BroadcastHandle ==
  /\ ev.data.handler = "running"
  /\ LET w1 == kvGet(answerCallbackQuery(World, OWNER, ""), "user")
         w2 == updateUserData(w1, OWNER, getUserData(w1, OWNER), 0)
         w == executeBroadcastHead(Log(w2, "call", "broadcast_confirm"), OWNER, 0)
         started == \E i \in DOMAIN w.log : w.log[i].op = "waitUntil"
     IN /\ users' = w.users
        /\ out' = w.out
        /\ log' = w.log
        /\ ev' = [ev EXCEPT !.data.handler = handlerAfterWaitUntil(started),
                            !.data.fan = IF started THEN "pending" ELSE "none",
                            !.data.text = getUserData(w2, OWNER).broadcast_message]
  /\ UNCHANGED <<variant, emails>>

\* the fan-out lists the user keys
BroadcastList ==
  /\ ev.data.fan = "pending"
  /\ LET allUserKeys == presentKeys(World, BroadcastOrder)
     IN ev' = [ev EXCEPT !.data.fan = "sending", !.data.listed = allUserKeys,
                         !.data.rest = allUserKeys]
  /\ UNCHANGED <<variant, users, emails, log, out>>

\* a fan-out whose loop has no try/catch: a rejected send ends it
broadcastSendAbort(b, outcome) ==
  IF outcome = "rejected"
  THEN [b EXCEPT !.fan = "aborted", !.rest = <<>>,
                 !.tried = Append(@, [to |-> Head(b.rest), outcome |-> outcome])]
  ELSE [b EXCEPT !.sent = @ + 1, !.rest = Tail(@),
                 !.tried = Append(@, [to |-> Head(b.rest), outcome |-> outcome])]

\* one pass of the loop: the send to the next listed key is awaited; sentCount
\* goes up when it resolves, failedCount when it rejects
broadcastSend(b, outcome) ==
  [b EXCEPT !.sent = IF outcome = "rejected" THEN @ ELSE @ + 1,
            !.failed = IF outcome = "rejected" THEN @ + 1 ELSE @,
            !.rest = Tail(@),
            !.tried = Append(@, [to |-> Head(b.rest), outcome |-> outcome])]

BroadcastSend(outcome) ==
  /\ ev.data.fan = "sending"
  /\ ev.data.rest # <<>>
  /\ out' = IF outcome = "ok"
            THEN TransportBody(World, "send", Head(ev.data.rest), "broadcast",
                               ev.data.text, NoKeyboard).out
            ELSE out
  /\ ev' = [ev EXCEPT !.data = broadcastSend(ev.data, outcome)]
  /\ UNCHANGED <<variant, users, emails, log>>

\* the loop is over: the tally is sent to the admin and the promise settles
BroadcastReport ==
  /\ ev.data.fan = "sending"
  /\ ev.data.rest = <<>>
  /\ out' = Transport(World, "send", OWNER, "broadcast_report", Num(0),
                      ev.data.sent, ev.data.failed, AdminBackKeyboard).out
  /\ ev' = [ev EXCEPT !.data.fan = "done",
                      !.data.handler = IF @ = "awaiting" THEN "returned" ELSE @]
  /\ UNCHANGED <<variant, users, emails, log>>

\* another chat presses a button of the bot for the first time: its record is
\* stored by the activity update of handleCallbackQuery
BroadcastJoin(c) ==
  /\ c \notin DOMAIN users
  /\ ev.data.msg # "none"
  /\ users' = handleCallbackQuery2(World, c, Token0("main_menu"), NAME_R, 0).users
  /\ UNCHANGED <<variant, emails, ev, log, out>>

\* the steps of the promise that executeBroadcast hands to ctx.waitUntil
FanOutStep ==
  \/ BroadcastList
  \/ \E outcome \in SendOutcomes : BroadcastSend(outcome)
  \/ BroadcastReport

NextBroadcast ==
  \/ BroadcastText
  \/ BroadcastTextEnd
  \/ BroadcastPress
  \/ BroadcastHandle
  \/ FanOutStep
  \/ \E c \in BroadcastChats : BroadcastJoin(c)

\* ctx.waitUntil keeps the invocation alive until the promise it was given
\* settles, and every awaited call of the fan-out settles
SpecBroadcast == InitBroadcast /\ [][NextBroadcast]_vars /\ WF_vars(FanOutStep)

(* ============== a text submitted in the creation flow ================== *)
\* A chat is asked for a local-part (v5.0: it replies to the name prompt;
\* v2.0: its state is awaiting_email_name) and sends one text.
NameChars == {"a", "A", "1", "-", " ", "!"}

MY_NAME == <<"M", "y", " ", "N", "a", "m", "e", "!">>
MY_NAME_01 == <<"m", "y", "-", "n", "a", "m", "e", ".", "0", "1">>

NameTexts ==
  (StringsUpTo(NameChars, MaxNameLen) \ {<<>>}) \cup {MY_NAME, MY_NAME_01}

InitName ==
  /\ variant \in {"v5", "v2"}
  /\ users = [c \in {OWNER} |->
               [NewUser EXCEPT !.lastActive = 0,
                               !.state = IF variant = "v2" THEN "awaiting_email_name"
                                         ELSE "null"]]
  /\ emails = [a \in {} |-> [inbox |-> <<>>, owner |-> OWNER]]
  /\ \E text \in NameTexts : ev = Event("text", OWNER, text, TRUE, 0)
  /\ log = <<>>
  /\ out = <<>>

\* the text arrives at the webhook
SubmitName ==
  /\ ev.kind = "text"
  /\ Commit(IF variant = "v5"
            THEN handleMessage5(World, OWNER, ev.data, TRUE, NAME_R, 0)
            ELSE handleMessage2(World, OWNER, ev.data, NAME_R, 0),
            Event("message", OWNER, ev.data, TRUE, 0))

NextName == SubmitName

SpecName == InitName /\ [][NextName]_vars

(* ============ one webhook event with a failing awaited call ============ *)
\* The chat presses the create button of a random-address proposal or the
\* confirm button of an address deletion; the fault-th awaited call of the
\* event rejects. Besides the v5.0, v2.0 and v7.1 bots the debugging variant
\* of worker.js 1-392 is covered: its createNewEmail, deleteEmail and
\* trackUserActivity make the calls of the v5.0 ones in the same order.
FaultVariants == {"debug", "v5", "v2", "v7"}
FaultTokens == {Token1("create_random", NAME_R), Token1("delete_confirm", ADDR)}
FaultsAt == {NoFault} \cup 0..MaxAwait

\* handleCallbackQuery of the debugging variant, for the cases of its switch
\* that the tokens above reach; the callback is answered last
handleCallbackQueryDebug(w, chatId, data, t) ==
  LET parts == split(data, ":")
      action == Head(parts)
      params == Tail(parts)
      w1 == trackUserActivity(w, chatId, t)
      w2 == CASE action = <<"create_random">> ->
                   editMessage(createNewEmail(Log(w1, "call", "create_random"), chatId,
                                              Param(params, 0), t),
                               chatId, "random_created", NoKeyboard)
               [] action = <<"delete_confirm">> ->
                   deleteEmail(Log(w1, "call", "delete_confirm"), chatId, Param(params, 0))
               [] OTHER -> w1
  IN answerCallbackQuery(w2, chatId, "")

\* request.json(): the body of a request can be read once
requestJson(bodyUsed, payload) == IF bodyUsed THEN Undefined ELSE payload

\* sendError(chatId, error, env)
sendError(w, chatId) == sendMessage(w, chatId, "error_notice", NoKeyboard)

\* fetch of the debugging variant: the catch block reads the request again to
\* find the chat, after the try block has read it
fetchDebug(h, chatOfPayload) ==
  IF ~h.thrown THEN [w |-> h, resp |-> "OK"]
  ELSE LET caught == [h EXCEPT !.thrown = FALSE, !.fuel = NoFault]
           chatId == requestJson(TRUE, chatOfPayload)
       IN [w |-> IF chatId # Undefined THEN sendError(caught, chatId) ELSE caught,
           resp |-> "OK"]

\* fetch of v5.0 awaits the handler with no try/catch; fetch of v2.0 and of
\* v7.1 hand the handler to ctx.waitUntil and return
fetchOf(v, h, chatOfPayload) ==
  CASE v = "debug" -> fetchDebug(h, chatOfPayload)
    [] v = "v5" -> [w |-> h, resp |-> IF h.thrown THEN "exception" ELSE "OK"]
    [] OTHER -> [w |-> h, resp |-> "OK"]

handlerOf(v, w, chatId, data) ==
  CASE v = "debug" -> handleCallbackQueryDebug(w, chatId, data, 0)
    [] v = "v5" -> handleCallbackQuery5(w, chatId, data, NAME_R, 0)
    [] v = "v2" -> handleCallbackQuery2(w, chatId, data, NAME_R, 0)
    [] OTHER -> handleCallbackQuery7(w, chatId, data, 0)

InitFault ==
  /\ variant \in FaultVariants
  /\ \/ /\ users = [c \in {} |-> NewUser]
        /\ emails = [a \in {} |-> [inbox |-> <<>>, owner |-> OWNER]]
     \/ /\ users = [c \in {OWNER} |-> [NewUser EXCEPT !.createdEmails = <<ADDR>>,
                                                      !.lastActive = 0]]
        /\ emails = [a \in {ADDR} |-> [inbox |-> <<>>, owner |-> OWNER]]
  /\ ev = Event("init", <<>>, <<>>, FALSE, 0)
  /\ log = <<>>
  /\ out = <<>>

Webhook(data, fault) ==
  LET h == handlerOf(variant, [World EXCEPT !.fuel = fault], OWNER, data)
      r == fetchOf(variant, h, OWNER)
  IN Commit(r.w, Event("webhook", OWNER,
                       [token |-> data, fault |-> fault, resp |-> r.resp], FALSE, 0))

NextFault == \E data \in FaultTokens, fault \in FaultsAt : Webhook(data, fault)

SpecFault == InitFault /\ [][NextFault]_vars

(* ======== deleting the message shown in the single-message view ======== *)
\* The owner of a v5.0 mailbox opens a message from the list, presses the
\* delete button of that view and the confirm button of the question that
\* follows. Every press sends the token of the button on the screen. Between
\* the presses a mail may arrive, and a deletion may be confirmed from another
\* message of the chat. ev.data keeps the screen of the flow: the keyboard last
\* rendered into it and the message that the single-message view showed.
Ids(inbox) == {inbox[k].id : k \in DOMAIN inbox}
Screen(phase, shown, kb, removed, between) ==
  [phase |-> phase, shown |-> shown, kb |-> kb, removed |-> removed, between |-> between]

ViewCommit(w, e) ==
  /\ users' = w.users
  /\ emails' = w.emails
  /\ log' = w.log
  /\ out' = w.out
  /\ ev' = e
  /\ UNCHANGED variant

InitView ==
  /\ variant = "v5"
  /\ \E n \in 1..MaxView, pattern \in {"none", "all"} :
       emails = [a \in {ADDR} |-> [inbox |-> InboxOf(n, pattern), owner |-> OWNER]]
  /\ users = [c \in {OWNER} |-> [NewUser EXCEPT !.createdEmails = <<ADDR>>,
                                                !.lastActive = 0]]
  /\ ev = Event("init", OWNER, Screen("list", 0, NoKeyboard, {}, 0), FALSE, 0)
  /\ log = <<>>
  /\ out = <<>>

\* a row of the list is pressed: view_email:<address>:<index>
ViewOpen(i) ==
  /\ ev.data.phase = "list"
  /\ i.val < Len(emails[ADDR].inbox)
  /\ LET w == handleCallbackQuery5(World, OWNER,
                                   Token2("view_email", ADDR, numToStr(i)), NAME_R, 0)
         shown == w.out[Len(w.out)]
     IN /\ shown.text = "single_email"
        /\ ViewCommit(w, Event("open", OWNER,
                           Screen("single", shown.msg, shown.kb, {}, 0), FALSE, 0))

\* the delete button of the single-message view is pressed
ViewDelete ==
  /\ ev.data.phase = "single"
  /\ LET w == handleCallbackQuery5(World, OWNER, ev.data.kb[1][2].data, NAME_R, 0)
         asked == w.out[Len(w.out)]
     IN ViewCommit(w, Event("delete", OWNER,
                        [ev.data EXCEPT !.phase = "confirm", !.kb = asked.kb], FALSE, 0))

\* the confirm button of the question is pressed: delete_single_execute
ViewConfirm ==
  /\ ev.data.phase = "confirm"
  /\ LET w == handleCallbackQuery5(World, OWNER, ev.data.kb[1][1].data, NAME_R, 0)
     IN ViewCommit(w, Event("confirm", OWNER,
                        [ev.data EXCEPT
                           !.phase = "done",
                           !.kb = NoKeyboard,
                           !.removed = Ids(emails[ADDR].inbox) \ Ids(w.emails[ADDR].inbox)],
                        FALSE, 0))

\* a mail arrives while the flow is open
ViewArrival ==
  /\ ev.data.phase \in {"single", "confirm"}
  /\ ev.data.between < MaxBetween
  /\ ViewCommit(emailOf(variant, World, ADDR, MaxView + ev.data.between + 1),
            Event("arrival", OWNER, [ev.data EXCEPT !.between = @ + 1], FALSE, 0))

\* a deletion is confirmed from another message of the chat
ViewOtherDeletion(j) ==
  /\ ev.data.phase \in {"single", "confirm"}
  /\ ev.data.between < MaxBetween
  /\ j.val < Len(emails[ADDR].inbox)
  /\ ViewCommit(handleCallbackQuery5(World, OWNER,
                                 Token2("delete_single_execute", ADDR, numToStr(j)),
                                 NAME_R, 0),
            Event("other_deletion", OWNER, [ev.data EXCEPT !.between = @ + 1], FALSE, 0))

NextView ==
  \/ \E i \in 0..(MaxView - 1) : ViewOpen(Num(i))
  \/ ViewDelete
  \/ ViewConfirm
  \/ ViewArrival
  \/ \E j \in 0..(MaxView + MaxBetween - 1) : ViewOtherDeletion(Num(j))

SpecView == InitView /\ [][NextView]_vars

(* ========= two chats creating the same address at the same time ======== *)
\* createNewEmail of v5.0 and of v2.0 step by step: each awaited call is one
\* step, and the steps of the two executions interleave freely. ev.data keeps
\* where each execution stands (pc) and the user record it has read (local).
CreatePcs == {"check", "write_mailbox", "read_user", "write_user", "notify",
              "created", "rejected"}
CreateState(pc, local) == [pc |-> pc, local |-> local]

CreateCommit(w, c, pc, local) ==
  /\ users' = w.users
  /\ emails' = w.emails
  /\ log' = w.log
  /\ out' = w.out
  /\ ev' = Event("step", c, CreateState([ev.data.pc EXCEPT ![c] = pc],
                                        [ev.data.local EXCEPT ![c] = local]), FALSE, 0)
  /\ UNCHANGED variant

InitCreate ==
  /\ variant \in {"v5", "v2"}
  /\ \E known \in SUBSET ChatIds :
       users = [c \in known |-> [NewUser EXCEPT !.lastActive = 0]]
  /\ emails = [a \in {} |-> [inbox |-> <<>>, owner |-> OWNER]]
  /\ ev = Event("init", <<>>, CreateState([c \in ChatIds |-> "check"],
                                         [c \in ChatIds |-> NewUser]), FALSE, 0)
  /\ log = <<>>
  /\ out = <<>>

\* const existing = await env.MAIL_BOT_DB.get(emailKey); if (existing) ...
CreateCheck(c) ==
  /\ ev.data.pc[c] = "check"
  /\ LET w1 == kvGet(World, "email")
     IN IF HasEmail(w1, ADDR)
        THEN CreateCommit(sendMessage(w1, c, "address_taken",
                                      IF variant = "v2" THEN RetryKeyboard ELSE NoKeyboard),
                          c, "rejected", ev.data.local[c])
        ELSE CreateCommit(w1, c, "write_mailbox", ev.data.local[c])

\* await env.MAIL_BOT_DB.put(emailKey, JSON.stringify({ inbox: [], owner: chatId }))
CreateWriteMailbox(c) ==
  /\ ev.data.pc[c] = "write_mailbox"
  /\ CreateCommit(kvPutEmail(World, ADDR, [inbox |-> <<>>, owner |-> c]),
                  c, "read_user", ev.data.local[c])

\* the read of user:<chat>
CreateReadUser(c) ==
  /\ ev.data.pc[c] = "read_user"
  /\ LET w3 == kvGet(World, "user")
         userData == IF variant = "v2" THEN getUserData(w3, c)
                     ELSE IF HasUser(w3, c) THEN w3.users[c]
                     ELSE [NewUser EXCEPT !.lastActive = 0]
     IN CreateCommit(w3, c, "write_user", userData)

\* createdEmails.push(email) and the write of user:<chat>
CreateWriteUser(c) ==
  /\ ev.data.pc[c] = "write_user"
  /\ LET userData == ev.data.local[c]
         pushed == IF variant = "v2" /\ includes(userData.createdEmails, ADDR)
                   THEN userData
                   ELSE [userData EXCEPT !.createdEmails = Append(@, ADDR)]
     IN CreateCommit(IF variant = "v2" THEN updateUserData(World, c, pushed, 0)
                     ELSE kvPutUser(World, c, pushed),
                     c, "notify", userData)

\* the success message
CreateNotify(c) ==
  /\ ev.data.pc[c] = "notify"
  /\ CreateCommit(sendMessage(World, c, "created",
                              IF variant = "v2" THEN MenuKeyboard ELSE NoKeyboard),
                  c, "created", ev.data.local[c])

NextCreate ==
  \E c \in ChatIds :
    \/ CreateCheck(c)
    \/ CreateWriteMailbox(c)
    \/ CreateReadUser(c)
    \/ CreateWriteUser(c)
    \/ CreateNotify(c)

SpecCreate == InitCreate /\ [][NextCreate]_vars

(* =============================== claims ================================ *)
LastOut == out[Len(out)]
IsCall(e) == e.op = "call"
Called(l, name) == \E i \in DOMAIN l : l[i] = [op |-> "call", arg |-> name]
CreatedOf(us, c) == IF c \in DOMAIN us THEN us[c].createdEmails ELSE <<>>
\* the local-part a free-text message submits: its first word, lower-cased
NameOfText(data) == Head(split(toLowerCase(trim(data)), " "))
\* the address a creation event is about
AttemptedAddress(e) ==
  IF e.kind = "message" THEN Address(NameOfText(e.data))
  ELSE Address(Param(Tail(split(e.data, ":")), 0))
\* the event ran createNewEmail
IsCreateAttempt(e, l) ==
  \/ e.kind = "message" /\ Called(l, "createNewEmail")
  \/ e.kind = "callback" /\ Called(l, "create_random")

\* C1: in every reachable state of the v5.0 bot, every address listed in a
\* chat's createdEmails has a Mailbox record, and that Mailbox's owner is the chat.
C1_ListedAddressHasOwnedMailbox ==
  variant = "v5" =>
    \A c \in DOMAIN users : \A k \in DOMAIN users[c].createdEmails :
      /\ users[c].createdEmails[k] \in DOMAIN emails
      /\ emails[users[c].createdEmails[k]].owner = c

\* C2: when a chat in state awaiting_email_name sends a valid local-part that is
\* not taken, the completed event leaves an empty Mailbox owned by the chat and
\* the address as the last element of the chat's persisted createdEmails (v2.0).
C2_AwaitedNameIsAppended ==
  [][ \A c \in ChatIds :
        ( /\ variant = "v2"
          /\ c \in DOMAIN users
          /\ users[c].state = "awaiting_email_name"
          /\ ev'.kind = "message"
          /\ ev'.chat = c
          /\ NameRegexTest(NameOfText(ev'.data))
          /\ Address(NameOfText(ev'.data)) \notin DOMAIN emails )
        => /\ Address(NameOfText(ev'.data)) \in DOMAIN emails'
           /\ emails'[Address(NameOfText(ev'.data))] = [inbox |-> <<>>, owner |-> c]
           /\ users'[c].createdEmails # <<>>
           /\ users'[c].createdEmails[Len(users'[c].createdEmails)]
                = Address(NameOfText(ev'.data)) ]_vars

\* C3: an event that runs createNewEmail for an address whose Mailbox exists
\* leaves that Mailbox (inbox and owner), the set of Mailbox keys and every
\* chat's createdEmails list unchanged.
C3_CreateExistingChangesNothing ==
  [][ ( /\ IsCreateAttempt(ev', log')
        /\ AttemptedAddress(ev') \in DOMAIN emails )
      => /\ DOMAIN emails' = DOMAIN emails
         /\ emails'[AttemptedAddress(ev')] = emails[AttemptedAddress(ev')]
         /\ \A c \in ChatIds : CreatedOf(users', c) = CreatedOf(users, c) ]_vars

\* a creation attempt on a taken address has been answered
C3_Witness ==
  /\ IsCreateAttempt(ev, log)
  /\ AttemptedAddress(ev) \in DOMAIN emails
  /\ emails[AttemptedAddress(ev)].owner # ev.chat
  /\ \E i \in DOMAIN out : out[i].text = "address_taken"

\* the handler the v2.0 switch binds to a state tag
BoundHandler2(state) ==
  IF state = "awaiting_email_name" THEN "createNewEmail" ELSE "confirmBroadcast"

\* C4: for every free-text message received while the sender's persisted state
\* is a state tag, the handler bound to the tag is dispatched and, once the event
\* has completed, the persisted state is none (v2.0, every sender).
C4_ArmedStateIsDispatchedAndCleared ==
  [][ \A c \in ChatIds :
        ( /\ variant = "v2"
          /\ c \in DOMAIN users
          /\ users[c].state # "null"
          /\ ev'.kind = "message"
          /\ ev'.chat = c
          /\ ~startsWith(trim(ev'.data), "/") )
        => /\ Called(log', BoundHandler2(users[c].state))
           /\ users'[c].state = "null" ]_vars

\* C5: while a user's state is awaiting_email_name, a message is dispatched to
\* the address-creation handler and to no other handler, and the state is
\* persisted as none only after that handler has been called (v2.0 and v7.1).
C5_AwaitingNameRunsOnlyCreate ==
  [][ \A c \in ChatIds :
        ( /\ variant \in {"v2", "v7"}
          /\ c \in DOMAIN users
          /\ users[c].state = "awaiting_email_name"
          /\ ~users[c].isBanned
          /\ ev'.kind = "message"
          /\ ev'.chat = c )
        => /\ SelectSeq(log', IsCall) = <<[op |-> "call", arg |-> "createNewEmail"]>>
           /\ \A i \in DOMAIN log' :
                log'[i] = [op |-> "state", arg |-> "null"]
                => \E j \in 1..(i - 1) : log'[j] = [op |-> "call", arg |-> "createNewEmail"]
           /\ users'[c].state = "null" ]_vars

\* a message has been handled in state awaiting_email_name: createNewEmail was
\* called with broadcast-looking text and the state was cleared afterwards
C5_Witness ==
  /\ variant = "v2"
  /\ ev.kind = "message"
  /\ ev.data = <<"H", "i", "!", " ", "a", "l", "l">>
  /\ Called(log, "createNewEmail")
  /\ log[Len(log)] = [op |-> "state", arg |-> "null"]

\* C6: a message that begins with the command prefix is dispatched through the
\* command switch whether or not the sender's state is set, and is never handed
\* to a state continuation handler (v2.0).
C6_CommandsIgnoreState ==
  [][ ( /\ variant = "v2"
        /\ ev'.kind = "message"
        /\ startsWith(trim(ev'.data), "/") )
      => /\ Called(log', "command")
         /\ ~Called(log', "createNewEmail")
         /\ ~Called(log', "confirmBroadcast") ]_vars

\* the event removed a message from the inbox
Spliced(l) == \E i \in DOMAIN l : l[i] = [op |-> "splice", arg |-> "inbox"]
Min(a, b) == IF a < b THEN a ELSE b
Max(a, b) == IF a > b THEN a ELSE b
\* the row the list view shows for the message at global index g of inbox
RowOf(inbox, g) ==
  << Button(IF inbox[g + 1].read THEN "msg_read" ELSE "msg_new",
            Token2("view_email", ADDR, natToStr(g))) >>

\* C7: deleteSingleEmail on an in-bounds index i of a mailbox of size n persists
\* a mailbox of size n-1 in which the messages before i keep their index and the
\* messages after i move down by one; the last render of the event is the list
\* view of the new mailbox (page 1, its rows and totalPages recomputed), or the
\* empty-state view when n-1 = 0.
C7_DeleteShiftsAndRerenders ==
  [][ \A i \in 0..MaxN :
        ( /\ ev'.kind = "callback"
          /\ ev'.data = Token2("delete_single_execute", ADDR, natToStr(i))
          /\ i < Len(emails[ADDR].inbox) )
        => /\ Len(emails'[ADDR].inbox) = Len(emails[ADDR].inbox) - 1
           /\ emails'[ADDR].owner = emails[ADDR].owner
           /\ \A j \in 0..(Len(emails[ADDR].inbox) - 1) :
                /\ j < i => emails'[ADDR].inbox[j + 1] = emails[ADDR].inbox[j + 1]
                /\ j > i => emails'[ADDR].inbox[j] = emails[ADDR].inbox[j + 1]
           /\ IF Len(emails'[ADDR].inbox) = 0
              THEN out'[Len(out')].text = "inbox_empty"
              ELSE /\ out'[Len(out')].text = "inbox_list"
                   /\ out'[Len(out')].page = Num(1)
                   /\ out'[Len(out')].total
                        = CeilDiv(Len(emails'[ADDR].inbox), emailsPerPage)
                   /\ Len(out'[Len(out')].kb)
                        = Min(Len(emails'[ADDR].inbox), emailsPerPage) + 2
                   /\ \A g \in 0..(Min(Len(emails'[ADDR].inbox), emailsPerPage) - 1) :
                        out'[Len(out')].kb[g + 1] = RowOf(emails'[ADDR].inbox, g) ]_vars

\* a message in the middle of a six-message mailbox has been deleted and the
\* list, now a single page, has been rendered again
C7_Witness ==
  /\ ev.kind = "callback"
  /\ ev.data = Token2("delete_single_execute", ADDR, <<"2">>)
  /\ Spliced(log)
  /\ Len(emails[ADDR].inbox) = 5
  /\ LastOut.text = "inbox_list"
  /\ LastOut.total = 1

\* C8: executing delete_single_execute twice with the same (address, index)
\* token removes exactly one message: the second execution leaves the mailbox
\* unchanged.
C8_SecondDeleteIsNoOp ==
  [][ ( /\ ev.kind = "callback"
        /\ \E i \in 0..MaxN :
             ev.data = Token2("delete_single_execute", ADDR, natToStr(i))
        /\ Spliced(log)
        /\ ev'.kind = "callback"
        /\ ev'.data = ev.data )
      => emails' = emails ]_vars

\* C9: deleteEmail for an address whose Mailbox is already deleted leaves every
\* Mailbox and every chat's createdEmails list unchanged (v5.0).
C9_DeleteAbsentChangesNothing ==
  [][ \A a \in AddrInputs :
        ( /\ variant = "v5"
          /\ ev'.kind = "callback"
          /\ ev'.data = Token1("delete_confirm", a)
          /\ a \notin DOMAIN emails )
        => /\ emails' = emails
           /\ \A c \in ChatIds : CreatedOf(users', c) = CreatedOf(users, c) ]_vars

\* C10: for a mailbox of n messages and a requested page p, showInboxList
\* renders page clamp(p, 1, max(1, ceil(n/5))) with that page's rows; for n = 0
\* it renders the empty-state view whose only control is refresh.
C10_PageIsClamped ==
  \A p \in PageRange :
    ( /\ ev.kind = "callback"
      /\ ev.data = Token2("view_inbox", ADDR, numToStr(Num(p))) )
    => LET n == Len(emails[ADDR].inbox)
           last == Max(1, CeilDiv(n, emailsPerPage))
           shown == Max(1, Min(p, last))
       IN IF n = 0
          THEN /\ LastOut.text = "inbox_empty"
               /\ Len(LastOut.kb) = 1
               /\ Len(LastOut.kb[1]) = 1
               /\ LastOut.kb[1][1].label = "refresh"
          ELSE /\ LastOut.text = "inbox_list"
               /\ LastOut.page = Num(shown)
               /\ LastOut.total = last
               /\ Len(LastOut.kb)
                    = Min(n, shown * emailsPerPage) - (shown - 1) * emailsPerPage + 2
               /\ LastOut.kb[1] = RowOf(emails[ADDR].inbox, (shown - 1) * emailsPerPage)

\* page 3 of a six-message mailbox was requested and page 2, the last, is shown
C10_Witness ==
  /\ ev.kind = "callback"
  /\ ev.data = Token2("view_inbox", ADDR, <<"3">>)
  /\ Len(emails[ADDR].inbox) = 6
  /\ LastOut.text = "inbox_list"
  /\ LastOut.page = Num(2)

\* the last render of the event is the list view of ADDR
ListShown == out # <<>> /\ LastOut.text = "inbox_list"
\* the navigation row of the list view: the row before the back-to-addresses row
NavRow == LastOut.kb[Len(LastOut.kb) - 1]
HasLabel(row, l) == \E b \in DOMAIN row : row[b].label = l
DataOf(row, l) == {row[b].data : b \in {x \in DOMAIN row : row[x].label = l}}
PageToken(p) == Token2("view_inbox", ADDR, natToStr(p))

\* C11: in the list view of a non-empty mailbox the navigation row holds a
\* previous control iff the rendered page > 1 and a next control iff the rendered
\* page < totalPages, targeting page-1 and page+1, and one refresh control that
\* targets the rendered page; with 12 messages page 1 has next and no previous,
\* page 3 has previous and no next.
C11_NavigationRow ==
  ListShown =>
    LET n == Len(emails[ADDR].inbox)
        T == CeilDiv(n, emailsPerPage)
        P == LastOut.page.val
    IN /\ ~LastOut.page.nan
       /\ HasLabel(NavRow, "prev") <=> P > 1
       /\ HasLabel(NavRow, "next") <=> P < T
       /\ DataOf(NavRow, "prev") \subseteq {PageToken(P - 1)}
       /\ DataOf(NavRow, "next") \subseteq {PageToken(P + 1)}
       /\ DataOf(NavRow, "refresh") = {PageToken(P)}
       /\ Len(NavRow) = 1 + (IF P > 1 THEN 1 ELSE 0) + (IF P < T THEN 1 ELSE 0)
       /\ (n = 12 /\ P = 1) =>
            NavRow = << Button("refresh", PageToken(1)), Button("next", PageToken(2)) >>
       /\ (n = 12 /\ P = 3) =>
            NavRow = << Button("prev", PageToken(2)), Button("refresh", PageToken(3)) >>

\* page 3 of a twelve-message mailbox is shown: previous and no next
C11_Witness ==
  /\ ev.kind = "callback"
  /\ ev.data = PageToken(3)
  /\ Len(emails[ADDR].inbox) = 12
  /\ ListShown
  /\ LastOut.page = Num(3)
  /\ HasLabel(NavRow, "prev")
  /\ ~HasLabel(NavRow, "next")

\* C12: list page P of a mailbox of n messages shows exactly one row for each
\* message at global indices (P-1)*5 .. min(P*5, n)-1, in list order, and each
\* row's token carries the message's global index, not its page-local position.
C12_RowsCarryGlobalIndex ==
  ListShown =>
    LET n == Len(emails[ADDR].inbox)
        P == LastOut.page.val
        lo == (P - 1) * emailsPerPage
        hi == Min(P * emailsPerPage, n)
    IN /\ Len(LastOut.kb) = (hi - lo) + 2
       /\ \A k \in 1..(hi - lo) :
            /\ LastOut.kb[k] = RowOf(emails[ADDR].inbox, lo + k - 1)
            /\ P > 1 => LastOut.kb[k][1].data # Token2("view_email", ADDR, natToStr(k - 1))

\* page 2 of a twelve-message mailbox is shown: its first row addresses index 5
C12_Witness ==
  /\ ListShown
  /\ Len(emails[ADDR].inbox) = 12
  /\ LastOut.page = Num(2)
  /\ Len(LastOut.kb) = 7
  /\ LastOut.kb[1][1].data = Token2("view_email", ADDR, <<"5">>)
  /\ LastOut.kb[5][1].data = Token2("view_email", ADDR, <<"9">>)

\* the last render of the event is the single-message view
SingleShown == out # <<>> /\ LastOut.text = "single_email"
\* the control of the single-message view that returns to the list
BackControl(r) == r.kb[2][1]

\* C13 as stated: each row's selection token also carries the current page
\* number, and the single-message view offers a back control to that page.
C13_RowTokenCarriesPage ==
  /\ ListShown =>
       \A k \in 1..(Len(LastOut.kb) - 2) :
         LET parts == split(LastOut.kb[k][1].data, ":")
         IN /\ Len(parts) = 4
            /\ parts[4] = numToStr(LastOut.page)
  /\ SingleShown => BackControl(LastOut).label = "back_inbox"

\* C13 amended: a row's token carries the address and the global index only;
\* opening a row rendered on list page P shows the single-message view whose
\* back control targets list page P, and whenever the view is opened on an
\* in-bounds index i its back control targets page floor(i/5)+1.
C13_BackReturnsToRenderedPage ==
  [][ /\ ListShown =>
           \A k \in 1..(Len(LastOut.kb) - 2) :
             ( /\ ev'.kind = "callback"
               /\ ev'.data = LastOut.kb[k][1].data )
             => /\ Len(split(ev'.data, ":")) = 3
                /\ out'[Len(out')].text = "single_email"
                /\ BackControl(out'[Len(out')])
                     = Button("back_inbox",
                              Token2("view_inbox", ADDR, numToStr(LastOut.page)))
      /\ \A i \in 0..MaxN :
           ( /\ ev'.kind = "callback"
             /\ ev'.data = Token2("view_email", ADDR, natToStr(i))
             /\ i < Len(emails[ADDR].inbox) )
           => /\ out'[Len(out')].text = "single_email"
              /\ BackControl(out'[Len(out')]).data = PageToken((i \div emailsPerPage) + 1)
    ]_vars

\* the message at index 5, the row of list page 2 of a six-message mailbox, is
\* open and its back control targets page 2
C13_Witness ==
  /\ ev.kind = "callback"
  /\ ev.data = Token2("view_email", ADDR, <<"5">>)
  /\ Len(emails[ADDR].inbox) = 6
  /\ ev.t = 2
  /\ SingleShown
  /\ BackControl(LastOut).data = PageToken(2)

\* the event wrote a Mailbox record
WroteEmail(l) == \E i \in DOMAIN l : l[i] = [op |-> "put", arg |-> "email"]

\* C14: viewSingleEmail with a global index that is out of bounds renders a
\* "could not retrieve" error carrying a control that returns to the list, and
\* writes nothing to the store.
C14_OutOfBoundsRendersError ==
  \A i \in 0..MaxN :
    ( /\ ev.kind = "callback"
      /\ ev.data = Token2("view_email", ADDR, natToStr(i))
      /\ i >= Len(emails[ADDR].inbox) )
    => /\ LastOut.text = "could_not_retrieve"
       /\ \E r \in DOMAIN LastOut.kb : \E b \in DOMAIN LastOut.kb[r] :
            Head(split(LastOut.kb[r][b].data, ":")) = <<"view_inbox">>
       /\ ~WroteEmail(log)

\* C15: viewSingleEmail on an in-bounds index i leaves message i read, and
\* neither viewSingleEmail nor markEmailUnread changes the mailbox's length, the
\* order of its messages, its owner or any field of a message other than the
\* read flag of message i.
C15_ViewChangesOnlyReadFlag ==
  [][ \A i \in 0..MaxN :
        ( /\ ev'.kind = "callback"
          /\ ev'.data \in { Token2("view_email", ADDR, natToStr(i)),
                            Token2("mark_unread", ADDR, natToStr(i)) } )
        => /\ DOMAIN emails' = DOMAIN emails
           /\ emails'[ADDR].owner = emails[ADDR].owner
           /\ Len(emails'[ADDR].inbox) = Len(emails[ADDR].inbox)
           /\ \A j \in DOMAIN emails[ADDR].inbox :
                /\ emails'[ADDR].inbox[j].id = emails[ADDR].inbox[j].id
                /\ j # i + 1 => emails'[ADDR].inbox[j] = emails[ADDR].inbox[j]
           /\ ( /\ ev'.data = Token2("view_email", ADDR, natToStr(i))
                /\ i < Len(emails[ADDR].inbox) )
              => emails'[ADDR].inbox[i + 1].read ]_vars

\* an unread message in the middle of the mailbox has been opened: it was
\* persisted as read, its neighbour is still unread
C15_Witness ==
  /\ ev.kind = "callback"
  /\ ev.data = Token2("view_email", ADDR, <<"3">>)
  /\ WroteEmail(log)
  /\ SingleShown
  /\ Len(emails[ADDR].inbox) = 6
  /\ emails[ADDR].inbox[4].read
  /\ ~emails[ADDR].inbox[5].read

\* C16: after the mark_unread action on an in-bounds message i has completed,
\* the persisted message i has read = false.
C16_MarkUnreadPersists ==
  \A i \in 0..MaxN :
    ( /\ ev.kind = "callback"
      /\ ev.data = Token2("mark_unread", ADDR, natToStr(i))
      /\ i < Len(emails[ADDR].inbox) )
    => ~emails[ADDR].inbox[i + 1].read

\* the operations of an event that are work other than the acknowledgment
IsWork(e) == e.op \in {"get", "put", "delete", "list", "call", "send", "edit", "document"}
Threw(l) == \E i \in DOMAIN l : l[i].op = "throw"
FromChat(e, c) == e.kind \in {"message", "callback"} /\ e.chat = c
IsBanned(us, c) == c \in DOMAIN us /\ us[c].isBanned

\* C17: for every callback event the acknowledgment is sent before any other
\* work of the event: before any storage read or write and before any handler
\* is dispatched.
C17_AckBeforeAnyWork ==
  ev.kind = "callback" =>
    \A i \in DOMAIN log :
      IsWork(log[i]) => \E j \in 1..(i - 1) : log[j].op = "ack"

\* C18: every callback event is acknowledged even when a downstream step fails:
\* if the dispatched handler or a storage call throws, the answerCallbackQuery
\* call of the event has still been made.
C18_AckDespiteFailure ==
  ev.kind = "callback" =>
    \E i \in DOMAIN log :
      log[i].op = "ack" \/ log[i] = [op |-> "throw", arg |-> "ack"]

\* C19: for a user whose record has isBanned = true no message and no callback
\* dispatches a handler: no Mailbox, no createdEmails list, no state (and no
\* other flow field) changes and no view is rendered, whatever the event holds.
C19_BannedIsDropped ==
  [][ \A c \in ChatIds :
        ( /\ variant = "v7"
          /\ IsBanned(users, c)
          /\ FromChat(ev', c) )
        => /\ emails' = emails
           /\ DOMAIN users' = DOMAIN users
           /\ \A d \in DOMAIN users :
                /\ users'[d].createdEmails = users[d].createdEmails
                /\ users'[d].state = users[d].state
                /\ users'[d].broadcast_message = users[d].broadcast_message
                /\ users'[d].isBanned = users[d].isBanned
           /\ \A i \in DOMAIN log' : log'[i].op # "call"
           /\ \A i \in DOMAIN out' : out'[i].via = "ack" ]_vars

\* a banned chat whose state is still armed has sent a message: the record was
\* read and nothing else happened
C19_Witness ==
  /\ variant = "v7"
  /\ ev.kind = "message"
  /\ IsBanned(users, ev.chat)
  /\ users[ev.chat].state = "awaiting_email_name"
  /\ log = <<[op |-> "get", arg |-> "user"]>>
  /\ out = <<>>

\* C20: activity is still recorded for banned users: every message or callback
\* from a user with isBanned = true updates and persists that user's lastActive
\* before the event is dropped.
C20_BannedActivityRecorded ==
  [][ \A c \in ChatIds :
        ( /\ variant = "v7"
          /\ IsBanned(users, c)
          /\ FromChat(ev', c)
          /\ ~Threw(log') )
        => /\ \E i \in DOMAIN log' : log'[i] = [op |-> "put", arg |-> "user"]
           /\ users'[c].lastActive = ev'.t ]_vars

\* the acknowledgments among the transport calls of an event
Acks(o) == {i \in DOMAIN o : o[i].via = "ack"}

\* C21: a callback from a banned user still receives exactly one
\* acknowledgment, carrying the banned notice, and the normal
\* acknowledgment/dispatch path is not taken (no activity write, no plain
\* acknowledgment, no handler).
C21_BannedCallbackAcked ==
  [][ \A c \in ChatIds :
        ( /\ variant = "v7"
          /\ IsBanned(users, c)
          /\ ev'.kind = "callback"
          /\ ev'.chat = c
          /\ ~Threw(log') )
        => /\ Cardinality(Acks(out')) = 1
           /\ \A i \in Acks(out') : out'[i].to = c /\ out'[i].text = "banned"
           /\ \A i \in DOMAIN log' : log'[i].op \notin {"call", "put", "state"} ]_vars

\* a banned chat has pressed a button that would arm a state: it got the
\* banned notice and nothing else
C21_Witness ==
  /\ variant = "v7"
  /\ ev.kind = "callback"
  /\ ev.data = Token0("create_email")
  /\ IsBanned(users, ev.chat)
  /\ users[ev.chat].state = "null"
  /\ Len(out) = 1
  /\ out[1].via = "ack"
  /\ out[1].text = "banned"

\* C22: every inbound event from a non-banned user (command, callback or free
\* text, with or without an armed state) persists an updated lastActive for
\* that user, and that write happens before the event's handler is dispatched;
\* a user record exists in the store after the user's first event.
C22_ActivityPersistedFirst ==
  [][ \A c \in ChatIds :
        ( /\ FromChat(ev', c)
          /\ ~IsBanned(users, c)
          /\ ~Threw(log') )
        => /\ c \in DOMAIN users'
           /\ users'[c].lastActive = ev'.t
           /\ \E i \in DOMAIN log' :
                /\ log'[i] = [op |-> "put", arg |-> "user"]
                /\ \A j \in 1..(i - 1) : ~IsCall(log'[j]) ]_vars

\* the action name of a callback token, and whether the variant's table of
\* actions binds it
ActionOf(data) == Head(split(data, ":"))
InTable(v, action) ==
  /\ Len(action) = 1
  /\ action[1] \in (CASE v = "v5" -> UserActions5 \cup AdminActions5
                      [] v = "v2" -> Actions2
                      [] v = "v7" -> Actions7)
\* an awaited I/O call of the event was rejected
IoRejected(l) ==
  \E i \in DOMAIN l : l[i].op = "throw" /\ l[i].arg \notin {"TypeError", "URIError"}

\* C23: a callback token whose action name is not in the action table is a
\* no-op: no handler runs, no Mailbox and no createdEmails/state/forwardEmail
\* field changes, no message is sent or edited, and the event completes
\* without error.
C23_UnknownActionIsNoOp ==
  [][ ( /\ ev'.kind = "callback"
        /\ ~InTable(variant, ActionOf(ev'.data))
        /\ ~IsBanned(users, ev'.chat)
        /\ ~IoRejected(log') )
      => /\ emails' = emails
         /\ \A d \in DOMAIN users :
              /\ users'[d].createdEmails = users[d].createdEmails
              /\ users'[d].state = users[d].state
              /\ users'[d].broadcast_message = users[d].broadcast_message
         /\ \A i \in DOMAIN log' : ~IsCall(log'[i])
         /\ \A i \in DOMAIN out' : out'[i].via = "ack"
         /\ ~Threw(log') ]_vars

\* the admin-only actions of each variant's table
AdminOnly(v) ==
  CASE v = "v5" -> AdminActions5
    [] v = "v2" -> {"admin_panel", "admin_stats", "admin_list_users",
                    "admin_broadcast", "broadcast_confirm", "admin_back"}
    [] v = "v7" -> {"admin_panel"}

\* C24: every admin-only callback action invoked by a chat that is not in the
\* admin allow-list is a no-op: it changes no record (no createdEmails, no
\* Mailbox, no state of the caller), starts no broadcast and renders no admin
\* view.
C24_AdminActionsGated ==
  [][ ( /\ ev'.kind = "callback"
        /\ ~isAdmin(ev'.chat)
        /\ Len(ActionOf(ev'.data)) = 1
        /\ ActionOf(ev'.data)[1] \in AdminOnly(variant)
        /\ ~IsBanned(users, ev'.chat)
        /\ ~IoRejected(log') )
      => /\ emails' = emails
         /\ \A d \in DOMAIN users :
              /\ users'[d].createdEmails = users[d].createdEmails
              /\ users'[d].state = users[d].state
              /\ users'[d].broadcast_message = users[d].broadcast_message
         /\ ev'.chat \in DOMAIN users' => users'[ev'.chat].state \in
              {"null"} \cup {users[d].state : d \in DOMAIN users \cap {ev'.chat}}
         /\ \A i \in DOMAIN log' : log'[i].op # "waitUntil"
         /\ \A i \in DOMAIN out' : out'[i].via = "ack" ]_vars

\* C25: callback tokens round-trip: for every action and every ordered list of
\* argument strings (including arguments containing ":", "%", "@" or other
\* reserved characters), splitting action:encode(arg1):...:encode(argK) on ":"
\* and decoding each part yields exactly the original action and argument
\* list; in particular decode(encode(address)) = address.
C25_TokenRoundTrip ==
  /\ ev.kind = "routed" => log = <<[op |-> "route", arg |-> ev.data]>>
  /\ decode(encode(ADDR)) = [ok |-> TRUE, val |-> ADDR]

\* a token of two arguments that hold the delimiter and the escape character
\* has been built and routed back
C25_Witness ==
  /\ ev.kind = "routed"
  /\ ev.data = << <<"view_inbox">>, <<":", "%">>, <<"%", "2", "5">> >>
  /\ out = << <<"view_inbox", ":", "%", "3", "A", "%", "2", "5",
                ":", "%", "2", "5", "2", "5">> >>
  /\ log = <<[op |-> "route", arg |-> ev.data]>>

\* C26: mail arrival for an existing address prepends: after email() completes
\* on a mailbox of n messages, the mailbox has n+1 messages, the new message is
\* at index 0 and unread, every earlier message formerly at index j is at
\* index j+1 unchanged, and the owner is unchanged.
C26_ArrivalPrepends ==
  [][ ev'.kind = "email" =>
        LET old == emails[ADDR].inbox
            new == emails'[ADDR].inbox
        IN /\ DOMAIN emails' = DOMAIN emails
           /\ Len(new) = Len(old) + 1
           /\ new[1] = Message(MaxN + ev'.t, FALSE)
           /\ \A j \in DOMAIN old : new[j + 1] = old[j]
           /\ emails'[ADDR].owner = emails[ADDR].owner ]_vars

\* a mail has arrived at a mailbox of three messages, the newest of them read
C26_Witness ==
  /\ ev.kind = "email"
  /\ Len(emails[ADDR].inbox) = 4
  /\ ~emails[ADDR].inbox[1].read
  /\ emails[ADDR].inbox[2] = Message(3, TRUE)
  /\ emails[ADDR].inbox[4] = Message(1, TRUE)
  /\ emails[ADDR].owner = OWNER

\* C27: mail addressed to an address with no Mailbox record (never created, or
\* deleted earlier) is rejected: email() calls setReject, creates no Mailbox,
\* changes no record and sends no notification; this holds in particular for
\* every arrival after the address's deleteEmail has completed.
C27_UnknownAddressRejected ==
  [][ ( /\ ev'.kind = "email"
        /\ toLowerCase(ev'.data) \notin DOMAIN emails )
      => /\ \E i \in DOMAIN log' : log'[i].op = "setReject"
         /\ emails' = emails
         /\ users' = users
         /\ out' = <<>> ]_vars

\* a mail was rejected at an address that a chat had created and that has
\* been deleted since (the creator's list still names it)
C27_Witness ==
  /\ ev.kind = "email"
  /\ \E i \in DOMAIN log : log[i].op = "setReject"
  /\ toLowerCase(ev.data) \notin DOMAIN emails
  /\ \E c \in DOMAIN users : includes(users[c].createdEmails, toLowerCase(ev.data))
  /\ out = <<>>

\* C28: there is no cross-event serialization: when two events that each
\* read-modify-write the same Mailbox record interleave between one event's
\* read and its write, the later save is computed from the record that event
\* read and overwrites whatever was saved in between; an execution is
\* reachable in which a message whose arrival completed is absent from the
\* final inbox.
C28_LaterSaveOverwrites ==
  [][ \A k \in Tasks :
        ( ev.data[k].pc = "read" /\ ev'.data[k].pc = "done" ) =>
          LET task == ev.data[k]
              snap == task.snap.inbox
              i == task.idx
          IN CASE task.op = "email" ->
                    emails'[ADDR].inbox = <<Message(task.msg, FALSE)>> \o snap
               [] task.op = "delete_single_execute" ->
                    emails'[ADDR].inbox =
                      SubSeq(snap, 1, i) \o SubSeq(snap, i + 2, Len(snap))
               [] task.op = "mark_unread" ->
                    emails'[ADDR].inbox = [snap EXCEPT ![i + 1].read = TRUE]
               [] task.op = "view_email" ->
                    IF snap[i + 1].read THEN emails' = emails
                    ELSE emails'[ADDR].inbox = [snap EXCEPT ![i + 1].read = TRUE]
               [] OTHER -> TRUE ]_vars

\* a mail arrived while the owner was opening a message: both events have
\* completed and the arrived message is not in the inbox
C28_Witness ==
  /\ ev.kind = "race"
  /\ variant = "v5"
  /\ ev.data["A"] = [ev.data["A"] EXCEPT !.pc = "done", !.op = "email"]
  /\ ev.data["B"] = [ev.data["B"] EXCEPT !.pc = "done", !.op = "view_email"]
  /\ log = <<[op |-> "email", arg |-> TaskMsg("A")], [op |-> "view_email", arg |-> 0]>>
  /\ \A j \in DOMAIN emails[ADDR].inbox : emails[ADDR].inbox[j].id # TaskMsg("A")

\* the fan-outs the completed confirm presses have started
FanOutsStarted ==
  {i \in DOMAIN log : log[i].op = "broadcast_confirm" /\ log[i].arg > 0}

\* C29: for one captured broadcast text at most one fan-out is ever started,
\* under any sequence or interleaving of broadcast_confirm presses: the pending
\* text is removed before the fan-out begins, and every confirm that arrives
\* afterwards finds nothing, renders a user-visible error and sends nothing to
\* any user.
C29_AtMostOneFanOut ==
  variant = "v2" => Cardinality(FanOutsStarted) <= 1

\* C30: the text an admin sends while in state awaiting_broadcast_message is
\* kept as the pending draft until it is confirmed or cancelled: after that
\* free-text event has completed (including its state-clearing write), a
\* following broadcast_confirm finds the draft and fans out exactly that text.
C30_ConfirmFansOutDraft ==
  [][ ( /\ variant = "v2"
        /\ ev.kind = "message"
        /\ Called(log, "confirmBroadcast")
        /\ ev'.kind = "callback"
        /\ ev'.chat = ev.chat
        /\ ev'.data = Token0("broadcast_confirm") )
      => /\ users[ev.chat].broadcast_message = trim(ev.data)
         /\ \E i \in DOMAIN out' :
              /\ out'[i].via = "send"
              /\ out'[i].text = "broadcast"
              /\ out'[i].body = trim(ev.data) ]_vars

\* the recipients the fan-out has tried, in the order of the attempts
TriedChats == [i \in DOMAIN ev.data.tried |-> ev.data.tried[i].to]
TriedWith(outcomes) ==
  Cardinality({i \in DOMAIN ev.data.tried : ev.data.tried[i].outcome \in outcomes})

TallyIsRight ==
  LET b == ev.data
  IN /\ b.fan \in {"sending", "done"} =>
          /\ TriedChats = SubSeq(b.listed, 1, Len(b.tried))
          /\ b.failed = TriedWith({"rejected"})
          /\ b.sent + b.failed = Len(b.tried)
     /\ b.fan = "done" =>
          /\ TriedChats = b.listed
          /\ b.sent + b.failed = Len(b.listed)
          /\ LastOut.to = OWNER
          /\ LastOut.text = "broadcast_report"
          /\ LastOut.total = b.sent
          /\ LastOut.msg = b.failed

OnlyAllowedChars(text) ==
  /\ text # <<>>
  /\ \A i \in DOMAIN text : text[i] \in LowerLetters \cup Digits \cup {".", "-"}

\* C33: a submitted local-part is accepted iff the text the user sent consists
\* only of lowercase letters, digits, "." and "-": a user who sends "My Name!"
\* in the creation flow is rejected and no Mailbox is created for any address,
\* and a user who sends "my-name.01" obtains the address my-name.01@<domain>.
C33_AcceptedIffAllowedChars ==
  [][ ev'.kind = "message" =>
        IF OnlyAllowedChars(ev'.data)
        THEN DOMAIN emails' = DOMAIN emails \cup {Address(ev'.data)}
        ELSE DOMAIN emails' = DOMAIN emails ]_vars

\* the renders by which createNewEmail rejects its input
IsRejection(r) == r.via = "send" /\ r.text \in {"invalid_name", "address_taken"}
\* the keyboard holds a button that re-enters the creation flow
HasRetryControl(kb) ==
  \E i \in DOMAIN kb : \E j \in DOMAIN kb[i] : kb[i][j].data = Token0("create_email")

\* C34: when createNewEmail rejects its input (invalid local-part, or address
\* already taken) it creates or modifies no Mailbox, changes no createdEmails
\* list, and its reply carries a retry control that re-enters the creation flow.
C34_RejectionKeepsStoreAndOffersRetry ==
  [][ \A i \in DOMAIN out' :
        (IsCreateAttempt(ev', log') /\ IsRejection(out'[i]))
        => /\ emails' = emails
           /\ \A c \in ChatIds : CreatedOf(users', c) = CreatedOf(users, c)
           /\ HasRetryControl(out'[i].kb) ]_vars

\* C40: the create_random action renders its "successfully created"
\* confirmation only if the address was actually created by this event: when
\* createNewEmail rejected the local-part or found the address already taken,
\* no success confirmation naming that address is shown to the user.
C40_RandomSuccessOnlyIfCreated ==
  [][ ( /\ ev'.kind = "callback"
        /\ Called(log', "create_random")
        /\ \E i \in DOMAIN out' : out'[i].text = "random_created" )
      => /\ AttemptedAddress(ev') \notin DOMAIN emails
         /\ AttemptedAddress(ev') \in DOMAIN emails'
         /\ emails'[AttemptedAddress(ev')].owner = ev'.chat ]_vars

\* a store call of the event has rejected
StoreFailed(l) ==
  \E i \in DOMAIN l : l[i].op = "throw" /\ l[i].arg \in {"get", "put", "delete"}
\* the Mailbox of the address and its entry in the owner's list go together
Paired(us, em) == (ADDR \in DOMAIN em) <=> includes(CreatedOf(us, OWNER), ADDR)

\* C35: a storage failure during an event leaves no partial state: if any store
\* read or write fails while createNewEmail or deleteEmail is running, then
\* afterwards either both the Mailbox record and the createdEmails entry for
\* the address are present or both are absent.
C35_FailureLeavesNoPartialState ==
  [][ ( /\ ev'.kind = "webhook"
        /\ StoreFailed(log')
        /\ Paired(users, emails) )
      => Paired(users', emails') ]_vars

\* C36: any error thrown while handling a webhook event is caught at the fetch
\* boundary: a failure notice is sent to the chat that originated the event
\* and the webhook still returns its OK response.
C36_ErrorCaughtAtBoundary ==
  [][ (ev'.kind = "webhook" /\ Threw(log'))
      => /\ ev'.data.resp = "OK"
         /\ \E i \in DOMAIN out' :
              /\ out'[i].via = "send"
              /\ out'[i].to = ev'.chat
              /\ out'[i].text = "error_notice" ]_vars

\* C37: the message removed by delete_single_execute is the message that was
\* shown in the single-message view from which the deletion was requested,
\* for every sequence of events in between, including a mail arrival or
\* another deletion between the view and the confirm.
C37_RemovedIsShown ==
  (ev.kind = "confirm" /\ ev.data.phase = "done") => ev.data.removed \subseteq {ev.data.shown}

UserMutations == {<<"delete_confirm">>, <<"delete_single_execute">>, <<"mark_unread">>,
                  <<"view_email">>}

\* C38: a user-level mutation callback from chat C (delete_confirm,
\* delete_single_execute, mark_unread, view_email) deletes or modifies a
\* Mailbox only if that Mailbox's owner is C; a token naming another chat's
\* address leaves that Mailbox unchanged.
C38_OnlyOwnerMutates ==
  [][ (ev'.kind = "callback" /\ ActionOf(ev'.data) \in UserMutations)
      => \A a \in DOMAIN emails :
           emails[a].owner # ev'.chat
             => (a \in DOMAIN emails' /\ emails'[a] = emails[a]) ]_vars

\* the chats whose createdEmails list holds the address
Holders == {c \in ChatIds : includes(CreatedOf(users, c), ADDR)}

\* C39: if two createNewEmail executions for the same address issued by two
\* different chats interleave (both existence checks before either Mailbox
\* write), at most one chat ends with the address in its createdEmails and
\* the Mailbox's owner is that chat.
C39_OneCreatorWins ==
  (ev.kind = "step" /\ \A c \in ChatIds : ev.data.pc[c] \in {"created", "rejected"})
    => /\ Cardinality(Holders) <= 1
       /\ \A c \in Holders : ADDR \in DOMAIN emails /\ emails[ADDR].owner = c

====
